---- MODULE Spec2Model ----
(***************************************************************************)
(* Model of the Telegram analysis dashboards:                              *)
(*   generate_static_dashboard.py   StaticDashboardGenerator and main()    *)
(*   telegram_analysis_dashboard.py TelegramAnalysisDashboard (pages)      *)
(*   streamlit_app.py               TelegramAnalysisDashboard (cloud)      *)
(*                                                                         *)
(* Python values are represented as follows.                               *)
(*   None            the record None                                       *)
(*   summary dict    a function from the top-level keys that are present   *)
(*                   to their values; {} is the function with domain {}    *)
(*   ordered dict    (a distribution) a sequence of <<key, count>> pairs   *)
(*                   in insertion order; keys are small integers standing  *)
(*                   for the key strings, except the intensity keys,       *)
(*                   which are digit strings (sequences of digits)         *)
(*   DataFrame       [columns, date_dtype, rows]; a row is a record of     *)
(*                   cell values, of which only those in columns exist     *)
(*   chart div       a record [chart |-> kind, ...data]; "" is Empty       *)
(*   raised          a record [chart |-> "raise", exc |-> type]            *)
(***************************************************************************)
EXTENDS Integers, Sequences, FiniteSets, TLC

VARIABLES
    fs,            \* which of the four default input files exist
    csv_content,   \* what pd.read_csv yields for an existing CSV file
    json_content,  \* what json.load yields for an existing JSON file
    csv_path,      \* generator.csv_path: the directory tier chosen by main()
    json_path,     \* generator.json_path
    use_sample,    \* main()'s use_sample flag
    df,            \* StaticDashboardGenerator.df
    summary_data,  \* StaticDashboardGenerator.summary_data
    charts,        \* results of the chart builders run so far, in call order
    html_content,  \* the assembled page
    out_file,      \* the file at output_path
    pc,            \* position of the static generator run
    ret,           \* outcome of generate_html_dashboard
    dash,          \* the interactive TelegramAnalysisDashboard object
    rendered,      \* elements the last page render sent to the browser
    sessions,      \* the browser sessions of a Streamlit server: widget
                   \* values, the script run in progress and its object
    temp_files     \* temp_analysis.csv and temp_summary.json in the server's
                   \* working directory

\* the variables of the Streamlit sessions
webVars == <<sessions, temp_files>>

vars == <<fs, csv_content, json_content, csv_path, json_path, use_sample, df,
          summary_data, charts, html_content, out_file, pc, ret, dash, rendered,
          sessions, temp_files>>

---------------------------------------------------------------------------
(* Bounds of the model *)

\* longest distribution (ordered dict) drawn as an input
MaxEntries == 16

---------------------------------------------------------------------------
(* Program constants *)

\* list(subcats.items())[:10]
TopSubcategories == 10

\* list(markers.items())[:15]
TopMarkers == 15

\* px.histogram(..., nbins=30)
ViewsBins == 30

---------------------------------------------------------------------------
(* Python values *)

None == [py_none |-> TRUE]

EmptyDict == <<>>

\* "" returned by a static builder
Empty == [chart |-> "empty"]

Raise(e) == [chart |-> "raise", exc |-> e]

IsRaise(c) == c.chart = "raise"

\* bool(d) for a dict or None
Truthy(d) == d # None /\ DOMAIN d # {}

\* d.get(k, default)
Get(d, k, default) == IF k \in DOMAIN d THEN d[k] ELSE default

Min(a, b) == IF a <= b THEN a ELSE b

\* s[:n]
Take(s, n) == SubSeq(s, 1, Min(n, Len(s)))

\* list(d.keys()) and list(d.values()) of an ordered dict
Keys(d) == [i \in 1..Len(d) |-> d[i][1]]

Values(d) == [i \in 1..Len(d) |-> d[i][2]]

\* position of key k in ordered dict d, 0 when absent
RECURSIVE IndexOf(_, _, _)
IndexOf(d, k, i) ==
    IF i > Len(d) THEN 0
    ELSE IF d[i][1] = k THEN i
    ELSE IndexOf(d, k, i + 1)

\* dict(items): a later item with a key already seen replaces the value in place
RECURSIVE DictFromItems(_, _)
DictFromItems(items, acc) ==
    IF items = <<>> THEN acc
    ELSE LET it == Head(items)
             at == IndexOf(acc, it[1], 1)
         IN DictFromItems(Tail(items),
                          IF at = 0 THEN Append(acc, it)
                          ELSE [acc EXCEPT ![at] = it])

\* d[k] of an ordered dict that holds k
Lookup(d, k) == d[IndexOf(d, k, 1)][2]

\* a < b for Python strings given as sequences of character codes
RECURSIVE StrLess(_, _)
StrLess(a, b) ==
    IF b = <<>> THEN FALSE
    ELSE IF a = <<>> THEN TRUE
    ELSE IF Head(a) # Head(b) THEN Head(a) < Head(b)
    ELSE StrLess(Tail(a), Tail(b))

RECURSIVE InsertSorted(_, _)
InsertSorted(s, k) ==
    IF s = <<>> THEN <<k>>
    ELSE IF StrLess(k, Head(s)) THEN <<k>> \o s
    ELSE <<Head(s)>> \o InsertSorted(Tail(s), k)

\* sorted(keys) of strings
RECURSIVE Sorted(_)
Sorted(ks) ==
    IF ks = <<>> THEN <<>>
    ELSE InsertSorted(Sorted(Tail(ks)), Head(ks))

---------------------------------------------------------------------------
(* DataFrame *)

ColumnNames == {"Message_ID", "Text_Preview", "Categories", "Subcategories",
                "Intensity_Score", "Views", "Forwards", "Date", "Has_Media",
                "Date_Only"}

\* a Date cell that pd.to_datetime cannot parse
BadDate == 0

HasColumns(d, cols) == cols \subseteq d.columns

\* pd.to_datetime(df['Date']) raises when a cell does not parse
DateParses(d) == \A i \in 1..Len(d.rows) : d.rows[i].Date # BadDate

\* the distinct days of the set in ascending order, each with its number of
\* rows
RECURSIVE CountByDay(_, _)
CountByDay(rows, days) ==
    IF days = {} THEN <<>>
    ELSE LET day == CHOOSE x \in days : \A y \in days : x <= y
         IN << <<day, Cardinality({i \in 1..Len(rows) : rows[i].Date = day})>> >>
            \o CountByDay(rows, days \ {day})

\* df.groupby(df['Date'].dt.date).size()
DailyCounts(rows) ==
    CountByDay(rows, {rows[i].Date : i \in 1..Len(rows)})

---------------------------------------------------------------------------
(* Formatting of the metric cards *)

\* f"{n:,}": the decimal digits of n in groups of three, most significant first
RECURSIVE ThousandsGroups(_)
ThousandsGroups(n) ==
    IF n < 1000 THEN <<n>>
    ELSE ThousandsGroups(n \div 1000) \o <<n % 1000>>

\* f"{r:.2f}" of a rate given in thousandths: <<integer part, hundredths>>,
\* rounded to the nearest hundredth
Fixed2(r) ==
    LET h == (r + 5) \div 10
    IN <<h \div 100, h % 100>>

---------------------------------------------------------------------------
(* Chart builders of StaticDashboardGenerator *)

create_overview_chart(sd) ==
    IF ~Truthy(sd) THEN Empty
    ELSE IF "analysis_summary" \notin DOMAIN sd THEN Raise("KeyError")
    ELSE LET summary == sd.analysis_summary
             engagement == Get(sd, "engagement_analysis", EmptyDict)
         IN IF ~({"total_messages_analyzed", "relevant_messages_found"}
                     \subseteq DOMAIN summary)
            THEN Raise("KeyError")
            ELSE [chart |-> "overview",
                  labels |-> <<"Total Messages", "Relevant Messages",
                               "Viral Messages", "High Engagement">>,
                  values |-> <<summary.total_messages_analyzed,
                               summary.relevant_messages_found,
                               Get(engagement, "viral_messages", 0),
                               Get(engagement, "high_engagement_messages", 0)>>]

\* variant of create_category_chart that cuts at the subcategory builder's
\* length
create_category_chart_top10(sd) ==
    IF ~Truthy(sd) \/ "category_distribution" \notin DOMAIN sd THEN Empty
    ELSE LET categories == DictFromItems(Take(sd.category_distribution, TopSubcategories), <<>>)
         IN [chart |-> "category_pie",
             keys |-> Keys(categories),
             values |-> Values(categories)]

create_category_chart(sd) ==
    IF ~Truthy(sd) \/ "category_distribution" \notin DOMAIN sd THEN Empty
    ELSE LET categories == sd.category_distribution
         IN [chart |-> "category_pie",
             keys |-> Keys(categories),
             values |-> Values(categories)]
\* the items of an ordered dict by descending count
RECURSIVE InsertByCount(_, _)
InsertByCount(s, it) ==
    IF s = <<>> THEN <<it>>
    ELSE IF it[2] > Head(s)[2] THEN <<it>> \o s
    ELSE <<Head(s)>> \o InsertByCount(Tail(s), it)

RECURSIVE SortedByCount(_)
SortedByCount(d) ==
    IF d = <<>> THEN <<>>
    ELSE InsertByCount(SortedByCount(Tail(d)), Head(d))

\* variant of create_subcategory_chart that ranks by count before cutting
create_subcategory_chart_ranked(sd) ==
    IF ~Truthy(sd) \/ "subcategory_distribution" \notin DOMAIN sd THEN Empty
    ELSE LET subcats == sd.subcategory_distribution
             top_subcats == DictFromItems(Take(SortedByCount(subcats), TopSubcategories), <<>>)
         IN [chart |-> "subcategory_bar",
             keys |-> Keys(top_subcats),
             values |-> Values(top_subcats),
             color |-> Values(top_subcats)]


create_subcategory_chart(sd) ==
    IF ~Truthy(sd) \/ "subcategory_distribution" \notin DOMAIN sd THEN Empty
    ELSE LET subcats == sd.subcategory_distribution
             top_subcats == DictFromItems(Take(subcats, TopSubcategories), <<>>)
         IN [chart |-> "subcategory_bar",
             keys |-> Keys(top_subcats),
             values |-> Values(top_subcats),
             color |-> Values(top_subcats)]

create_intensity_chart(sd) ==
    IF ~Truthy(sd) \/ "intensity_distribution" \notin DOMAIN sd THEN Empty
    ELSE LET intensity == sd.intensity_distribution
             levels == Sorted(Keys(intensity))
         IN [chart |-> "intensity_bar",
             levels |-> levels,
             values |-> [i \in 1..Len(levels) |-> Lookup(intensity, levels[i])]]
\* variant of create_linguistic_markers_chart that cuts at the subcategory
\* builder's length
create_linguistic_markers_chart_top10(sd) ==
    IF ~Truthy(sd) \/ "top_linguistic_markers" \notin DOMAIN sd THEN Empty
    ELSE LET markers == sd.top_linguistic_markers
             top_markers == DictFromItems(Take(markers, TopSubcategories), <<>>)
         IN [chart |-> "markers_bar",
             keys |-> Keys(top_markers),
             values |-> Values(top_markers),
             color |-> Values(top_markers)]


create_linguistic_markers_chart(sd) ==
    IF ~Truthy(sd) \/ "top_linguistic_markers" \notin DOMAIN sd THEN Empty
    ELSE LET markers == sd.top_linguistic_markers
             top_markers == DictFromItems(Take(markers, TopMarkers), <<>>)
         IN [chart |-> "markers_bar",
             keys |-> Keys(top_markers),
             values |-> Values(top_markers),
             color |-> Values(top_markers)]

\* px.scatter(df, x, y, color, hover_data): a column that the frame does not
\* have makes plotly raise ValueError
px_scatter(d) ==
    IF ~HasColumns(d, {"Views", "Forwards", "Intensity_Score", "Categories"})
    THEN Raise("ValueError")
    ELSE [chart |-> "scatter",
          points |-> [i \in 1..Len(d.rows) |->
                        <<d.rows[i].Views, d.rows[i].Forwards,
                          d.rows[i].Intensity_Score, d.rows[i].Categories>>]]

\* px.histogram(df, x='Views', nbins=30)
px_histogram(d) ==
    IF ~HasColumns(d, {"Views"}) THEN Raise("ValueError")
    ELSE [chart |-> "histogram",
          nbins |-> ViewsBins,
          values |-> [i \in 1..Len(d.rows) |-> d.rows[i].Views]]

create_engagement_chart(d) ==
    IF d = None THEN Empty ELSE px_scatter(d)
\* variant of create_media_chart whose second slice is the relevant total
create_media_chart_total(sd) ==
    IF ~Truthy(sd) THEN Empty
    ELSE LET media_count == Get(sd, "content_with_media", 0)
         IN IF "analysis_summary" \notin DOMAIN sd
               \/ "relevant_messages_found" \notin DOMAIN sd.analysis_summary
            THEN Raise("KeyError")
            ELSE LET total_relevant == sd.analysis_summary.relevant_messages_found
                 IN [chart |-> "media_pie",
                     labels |-> <<"With Media", "Text Only">>,
                     values |-> <<media_count, total_relevant>>]

\* variant of create_media_chart that returns "" without content_with_media
create_media_chart_strict(sd) ==
    IF ~Truthy(sd) \/ "content_with_media" \notin DOMAIN sd THEN Empty
    ELSE IF "analysis_summary" \notin DOMAIN sd
            \/ "relevant_messages_found" \notin DOMAIN sd.analysis_summary
         THEN Raise("KeyError")
    ELSE [chart |-> "media_pie",
          labels |-> <<"With Media", "Text Only">>,
          values |-> <<sd.content_with_media,
                       sd.analysis_summary.relevant_messages_found
                         - sd.content_with_media>>]


create_media_chart(sd) ==
    IF ~Truthy(sd) THEN Empty
    ELSE LET media_count == Get(sd, "content_with_media", 0)
         IN IF "analysis_summary" \notin DOMAIN sd
               \/ "relevant_messages_found" \notin DOMAIN sd.analysis_summary
            THEN Raise("KeyError")
            ELSE LET total_relevant == sd.analysis_summary.relevant_messages_found
                 IN [chart |-> "media_pie",
                     labels |-> <<"With Media", "Text Only">>,
                     values |-> <<media_count, total_relevant - media_count>>]
\* variant of timeline_skips without the column test
timeline_skips_no_column_test(d) == d = None

\* whether create_timeline_chart returns before touching the frame
timeline_skips(d) == d = None \/ "Date" \notin d.columns

create_timeline_chart(d) ==
    IF timeline_skips(d) THEN Empty
    ELSE IF d.date_dtype # "datetime64" /\ ~DateParses(d) THEN Raise("ValueError")
    ELSE LET daily_counts == DailyCounts(d.rows)
         IN [chart |-> "line",
             days |-> Keys(daily_counts),
             values |-> Values(daily_counts)]

\* variant of timeline_df that also drops the rows of the frame's last day
timeline_df_truncating(d) ==
    IF timeline_skips(d) THEN d
    ELSE IF d.date_dtype # "datetime64" /\ ~DateParses(d) THEN d
    ELSE [d EXCEPT !.date_dtype = "datetime64",
                   !.rows = SelectSeq(@, LAMBDA r :
                               \E i \in 1..Len(d.rows) : d.rows[i].Date > r.Date)]

\* self.df after create_timeline_chart: the Date column converted in place
timeline_df(d) ==
    IF timeline_skips(d) THEN d
    ELSE IF d.date_dtype # "datetime64" /\ ~DateParses(d) THEN d
    ELSE [d EXCEPT !.date_dtype = "datetime64"]

create_views_distribution_chart(d) ==
    IF d = None THEN Empty ELSE px_histogram(d)

\* variant of summary_after in which the media builder reads its count with
\* setdefault
summary_after_setdefault(b, sd) ==
    IF b = "media" /\ Truthy(sd) /\ "content_with_media" \notin DOMAIN sd
    THEN [k \in DOMAIN sd \cup {"content_with_media"} |->
            IF k = "content_with_media" THEN 0 ELSE sd[k]]
    ELSE sd

\* self.summary_data after builder b returned: the builders read it with
\* subscripts, get(), keys(), values() and items() and assign nothing
summary_after(b, sd) == sd

\* the builder calls of generate_html_dashboard, in call order
BuilderOrder == <<"overview", "category", "subcategory", "intensity",
                  "linguistic", "engagement", "media", "timeline", "views">>

RunBuilder(b, sd, d) ==
    CASE b = "overview" -> create_overview_chart(sd)
      [] b = "category" -> create_category_chart(sd)
      [] b = "subcategory" -> create_subcategory_chart(sd)
      [] b = "intensity" -> create_intensity_chart(sd)
      [] b = "linguistic" -> create_linguistic_markers_chart(sd)
      [] b = "engagement" -> create_engagement_chart(d)
      [] b = "media" -> create_media_chart(sd)
      [] b = "timeline" -> create_timeline_chart(d)
      [] b = "views" -> create_views_distribution_chart(d)

\* index of builder b in the call order
BuilderIndex(b) == CHOOSE i \in 1..Len(BuilderOrder) : BuilderOrder[i] = b

---------------------------------------------------------------------------
(* Sample data: load_sample_data *)

\* the summary literal of StaticDashboardGenerator.load_sample_data; rates
\* and averages with decimals are kept in thousandths
SampleSummary ==
    [analysis_summary |->
        [total_messages_analyzed |-> 12000,
         relevant_messages_found |-> 1315,
         relevance_rate |-> 10960],
     category_distribution |->
        << <<1, 1245>>, <<2, 35>>, <<3, 30>>, <<4, 5>> >>,
     subcategory_distribution |->
        << <<3, 1280>>, <<2, 35>>, <<1, 30>>, <<4, 25>>,
           <<5, 20>>, <<6, 15>>, <<7, 12>>, <<8, 8>> >>,
     intensity_distribution |->
        << << <<1>>, 1312 >>, << <<2>>, 3 >> >>,
     engagement_analysis |->
        [viral_messages |-> 1129,
         average_views |-> 8547000,
         average_forwards |-> 2100,
         max_views |-> 89000,
         high_engagement_messages |-> 456],
     top_linguistic_markers |->
        << <<1, 977>>, <<2, 156>>, <<3, 89>>, <<4, 67>>, <<5, 45>>,
           <<6, 34>>, <<7, 23>>, <<8, 12>>, <<9, 45>>, <<10, 38>>,
           <<11, 29>>, <<12, 25>>, <<13, 67>>, <<14, 43>>, <<15, 31>> >>,
     content_with_media |-> 700,
     media_distribution |-> << <<1, 450>>, <<2, 250>> >>]

\* variant of SampleColumns that omits the Views column
SampleColumnsWithoutViews ==
    {"Message_ID", "Text_Preview", "Categories", "Subcategories",
     "Intensity_Score", "Forwards", "Date", "Has_Media"}

\* the columns of the sample frame
SampleColumns == {"Message_ID", "Text_Preview", "Categories", "Subcategories",
                  "Intensity_Score", "Views", "Forwards", "Date", "Has_Media"}

Max(a, b) == IF a >= b THEN a ELSE b

\* views = max(100, min(views, 89000))
ClipViews(v) == Max(100, Min(v, 89000))

\* forwards = max(0, min(forwards, 20))
ClipForwards(f) == Max(0, Min(f, 20))

\* day number of datetime.now() in the model's calendar, whose day 1 is
\* 2024-01-01: a run on 2025-02-03
Today == 400

\* one generated row from raw draws: lognormal views, Poisson forwards,
\* randint(0, 365) days back, a category and an intensity
SampleRow(i, views, forwards, back, category, intensity) ==
    [Message_ID |-> i,
     Categories |-> <<category>>,
     Intensity_Score |-> intensity,
     Views |-> ClipViews(views),
     Forwards |-> ClipForwards(forwards),
     Date |-> Today - back]

\* raw draws the model enumerates for the random generator
RawViews == {50, 200000}

RawForwards == {2, 25}

RawBack == {0, 364}

\* self.df = pd.DataFrame(sample_data); df['Date'] = pd.to_datetime(...)
SampleFrames ==
    {[columns |-> SampleColumns,
      date_dtype |-> "datetime64",
      rows |-> <<SampleRow(1, 1808, 2, 100, "LGBTQ+ Hate Speech & Anti-Rights Rhetoric", 1),
                 SampleRow(2, v, f, b, "Masculinity & Gender Backlash", 2)>>]
     : v \in RawViews, f \in RawForwards, b \in RawBack}

---------------------------------------------------------------------------
(* Inputs: what the two files can hold *)

\* pd.read_csv / json.load raise on this content
Malformed == [malformed |-> TRUE]

CsvColumns == {"Message_ID", "Text_Preview", "Categories", "Subcategories",
               "Intensity_Score", "Views", "Forwards", "Date"}

CsvRow(i, views, forwards, day, cats, intensity) ==
    [Message_ID |-> i,
     Categories |-> cats,
     Intensity_Score |-> intensity,
     Views |-> views,
     Forwards |-> forwards,
     Date |-> day]

\* a frame as read_csv yields it: dates are still strings
CsvFrame ==
    [columns |-> CsvColumns,
     date_dtype |-> "object",
     rows |-> <<CsvRow(1, 1200, 3, 10, <<"A", "B">>, 1),
                CsvRow(2, 150, 0, 10, <<"A">>, 2),
                CsvRow(3, 40000, 7, 12, <<"B">>, 1)>>]

WithoutColumns(d, cols) == [d EXCEPT !.columns = @ \ cols]

\* the frame with an unparsable Date cell in its first row
WithBadDate(d) == [d EXCEPT !.rows[1].Date = BadDate]

WithoutKeys(sd, ks) == [k \in DOMAIN sd \ ks |-> sd[k]]

OptionalKeys == {"category_distribution", "subcategory_distribution",
                 "intensity_distribution", "top_linguistic_markers",
                 "content_with_media", "engagement_analysis"}

\* documents that a JSON file of the static run holds
RunDocs ==
    {SampleSummary,
     None,
     EmptyDict,
     WithoutKeys(SampleSummary, {"analysis_summary"}),
     [SampleSummary EXCEPT !.analysis_summary = WithoutKeys(@, {"relevance_rate"})],
     WithoutKeys(SampleSummary, {"engagement_analysis"}),
     WithoutKeys(SampleSummary, {"category_distribution", "content_with_media"}),
     WithoutKeys(SampleSummary, OptionalKeys \cup {"media_distribution"})}

\* frames that a CSV file of the static run holds
RunFrames ==
    {CsvFrame,
     WithoutColumns(CsvFrame, {"Views"}),
     WithoutColumns(CsvFrame, {"Date"}),
     WithBadDate(CsvFrame)}

CsvContents == RunFrames \cup {Malformed}

JsonContents == RunDocs \cup {Malformed}

---------------------------------------------------------------------------
(* Pages of the interactive TelegramAnalysisDashboard.  A page is the         *)
(* sequence of elements it sends to the browser; an exception ends the page   *)
(* and is shown as its last element.                                          *)

\* st.markdown of a fixed text
Md(t) == [chart |-> "markdown", text |-> t]

\* st.metric(label, formatted value)
Metric(l, v) == [chart |-> "metric", label |-> l, value |-> v]

\* st.markdown of a text that interpolates a number
Insight(t, n) == [chart |-> "insight", text |-> t, value |-> <<n>>]

\* the parts of a page in order, up to and including the first that raises
RECURSIVE Elements(_)
Elements(parts) ==
    IF parts = <<>> THEN <<>>
    ELSE LET h == Head(parts)
         IN IF h # <<>> /\ IsRaise(h[Len(h)]) THEN h
            ELSE h \o Elements(Tail(parts))

\* d.get(k, default) of an ordered dict
GetCount(d, k, default) ==
    IF IndexOf(d, k, 1) = 0 THEN default ELSE Lookup(d, k)

\* st.metric of sd[k] formatted with thousands separators; KeyError without k
MetricOf(d, k, l) ==
    IF k \in DOMAIN d THEN <<Metric(l, ThousandsGroups(d[k]))>>
    ELSE <<Raise("KeyError")>>

create_overview_metrics(o) ==
    LET sd == o.summary_data
    IN <<Md("main-header"), Md("Executive Summary")>> \o
       (IF ~Truthy(sd) THEN <<>>
        ELSE IF "analysis_summary" \notin DOMAIN sd THEN <<Raise("KeyError")>>
        ELSE LET summary == sd.analysis_summary
                 engagement == Get(sd, "engagement_analysis", EmptyDict)
             IN Elements(<<
                  MetricOf(summary, "total_messages_analyzed", "Total Messages Analyzed"),
                  MetricOf(summary, "relevant_messages_found", "Relevant Messages Found"),
                  IF "relevance_rate" \in DOMAIN summary
                  THEN <<Metric("Relevance Rate", Fixed2(summary.relevance_rate))>>
                  ELSE <<Raise("KeyError")>>,
                  <<Metric("Viral Messages",
                           ThousandsGroups(Get(engagement, "viral_messages", 0)))>> >>))

create_category_distribution(o) ==
    LET sd == o.summary_data
    IN <<Md("Content Category Analysis")>> \o
       (IF ~Truthy(sd) \/ "category_distribution" \notin DOMAIN sd THEN <<>>
        ELSE LET categories == sd.category_distribution
             IN <<[chart |-> "category_pie",
                   keys |-> Keys(categories),
                   values |-> Values(categories)],
                  [chart |-> "category_bar",
                   keys |-> Keys(categories),
                   values |-> Values(categories),
                   color |-> Values(categories)]>>)

create_subcategory_analysis(o) ==
    LET sd == o.summary_data
    IN <<Md("Subcategory Deep Dive")>> \o
       (IF ~Truthy(sd) \/ "subcategory_distribution" \notin DOMAIN sd THEN <<>>
        ELSE LET subcats == sd.subcategory_distribution
                 top_subcats == DictFromItems(Take(subcats, TopSubcategories), <<>>)
             IN <<[chart |-> "subcategory_bar",
                   keys |-> Keys(top_subcats),
                   values |-> Values(top_subcats),
                   color |-> Values(top_subcats)],
                  Md("Key Insights"),
                  Insight("3.religious_opposition", GetCount(subcats, 3, 0)),
                  Insight("2.emasculation", GetCount(subcats, 2, 0)),
                  Insight("1.cultural_authenticity", GetCount(subcats, 1, 0))>>)

create_intensity_analysis(o) ==
    LET sd == o.summary_data
    IN <<Md("Message Intensity Analysis")>> \o
       (IF ~Truthy(sd) \/ "intensity_distribution" \notin DOMAIN sd THEN <<>>
        ELSE LET intensity == sd.intensity_distribution
                 levels == Sorted(Keys(intensity))
             IN <<[chart |-> "intensity_bar",
                   levels |-> levels,
                   values |-> [i \in 1..Len(levels) |-> Lookup(intensity, levels[i])]],
                  Md("Intensity Scale")>> \o
                (IF GetCount(intensity, <<1>>, 0)
                      > GetCount(intensity, <<2>>, 0) + GetCount(intensity, <<3>>, 0)
                 THEN <<Md("Analysis Alert")>> ELSE <<>>))

\* f"{x:,.0f}" of a number in thousandths: rounded to an integer
Fixed0Groups(x) == ThousandsGroups((x + 500) \div 1000)

create_engagement_analysis(o) ==
    LET sd == o.summary_data
        d == o.df
    IN Elements(<<
         <<Md("Engagement & Viral Spread Analysis")>>,
         IF d = None THEN <<>> ELSE <<px_histogram(d)>>,
         IF d = None THEN <<>> ELSE <<px_scatter(d)>>,
         IF ~Truthy(sd) \/ "engagement_analysis" \notin DOMAIN sd THEN <<>>
         ELSE LET engagement == sd.engagement_analysis
              IN <<Metric("Average Views",
                          Fixed0Groups(Get(engagement, "average_views", 0))),
                   Metric("Average Forwards",
                          Fixed2(Get(engagement, "average_forwards", 0))),
                   Metric("Max Views",
                          ThousandsGroups(Get(engagement, "max_views", 0)))>> >>)

create_linguistic_markers(o) ==
    LET sd == o.summary_data
    IN <<Md("Linguistic Markers Analysis")>> \o
       (IF ~Truthy(sd) \/ "top_linguistic_markers" \notin DOMAIN sd THEN <<>>
        ELSE LET markers == sd.top_linguistic_markers
                 top_markers == DictFromItems(Take(markers, TopMarkers), <<>>)
                 religious_count == GetCount(markers, 1, 0) + GetCount(markers, 2, 0)
                                      + GetCount(markers, 3, 0)
                 masculinity_count == GetCount(markers, 7, 0) + GetCount(markers, 8, 0)
                                        + GetCount(markers, 20, 0)
                 cultural_count == GetCount(markers, 5, 0) + GetCount(markers, 6, 0)
                                     + GetCount(markers, 9, 0)
             IN <<[chart |-> "markers_bar",
                   keys |-> Keys(top_markers),
                   values |-> Values(top_markers),
                   color |-> Values(top_markers)],
                  Md("Key Linguistic Patterns"),
                  Insight("Religious Opposition", religious_count),
                  Insight("sin", GetCount(markers, 1, 0)),
                  Insight("immoral", GetCount(markers, 2, 0)),
                  Insight("Masculinity Crisis", masculinity_count),
                  Insight("beta male", GetCount(markers, 7, 0)),
                  Insight("emasculation", GetCount(markers, 8, 0)),
                  Insight("Cultural Authenticity", cultural_count),
                  Insight("imported", GetCount(markers, 5, 0)),
                  Insight("our culture", GetCount(markers, 6, 0))>>)

\* f"{p:.1f}" of media_count / total_relevant * 100: <<integer part, tenths>>
MediaPercentage(media_count, total_relevant) ==
    IF total_relevant > 0
    THEN LET t == (media_count * 2000 + total_relevant) \div (2 * total_relevant)
         IN <<t \div 10, t % 10>>
    ELSE <<0, 0>>

create_media_analysis(o) ==
    LET sd == o.summary_data
    IN <<Md("Media Content Analysis")>> \o
       (IF ~Truthy(sd) THEN <<>>
        ELSE LET media_count == Get(sd, "content_with_media", 0)
             IN IF "analysis_summary" \notin DOMAIN sd
                   \/ "relevant_messages_found" \notin DOMAIN sd.analysis_summary
                THEN <<Raise("KeyError")>>
                ELSE LET total_relevant == sd.analysis_summary.relevant_messages_found
                         media_types == Get(sd, "media_distribution", <<>>)
                     IN <<[chart |-> "media_pie",
                           labels |-> <<"With Media", "Text Only">>,
                           values |-> <<media_count, total_relevant - media_count>>],
                          [chart |-> "metric",
                           label |-> "Messages with Media",
                           value |-> ThousandsGroups(media_count),
                           delta |-> MediaPercentage(media_count, total_relevant)]>>
                        \o (IF "media_distribution" \in DOMAIN sd
                            THEN <<Md("Media Type Breakdown")>>
                                 \o [i \in 1..Len(media_types) |->
                                       [chart |-> "media_type",
                                        keys |-> <<media_types[i][1]>>,
                                        value |-> <<media_types[i][2]>>]]
                            ELSE <<>>)
                        \o <<Md("Strategic Insight")>>)

\* whether create_temporal_analysis renders nothing but its header
temporal_skips(d) == d = None \/ "Date" \notin d.columns

\* the (Date_Only, Category) pairs of the frame with their numbers of rows:
\* cat_df.groupby(['Date', 'Category']).size()
CategoryCounts(rows) ==
    LET data == UNION {{<<i, j>> : j \in 1..Len(rows[i].Categories)} :
                         i \in 1..Len(rows)}
    IN {<<rows[ij[1]].Date, rows[ij[1]].Categories[ij[2]],
          Cardinality({kl \in data :
                         /\ rows[kl[1]].Date = rows[ij[1]].Date
                         /\ rows[kl[1]].Categories[kl[2]]
                              = rows[ij[1]].Categories[ij[2]]})>> : ij \in data}

create_temporal_analysis(o) ==
    LET d == o.df
    IN <<Md("Temporal Patterns")>> \o
       (IF temporal_skips(d) THEN <<>>
        ELSE IF d.date_dtype # "datetime64" /\ ~DateParses(d) THEN <<Raise("ValueError")>>
        ELSE LET daily_counts == DailyCounts(d.rows)
             IN <<[chart |-> "line",
                   days |-> Keys(daily_counts),
                   values |-> Values(daily_counts)]>>
                \o (IF "Categories" \in d.columns /\ CategoryCounts(d.rows) # {}
                    THEN <<[chart |-> "area", groups |-> CategoryCounts(d.rows)]>>
                    ELSE <<>>))

\* self.df after create_temporal_analysis: Date converted, Date_Only added
temporal_df(d) ==
    IF temporal_skips(d) THEN d
    ELSE IF d.date_dtype # "datetime64" /\ ~DateParses(d) THEN d
    ELSE [d EXCEPT !.date_dtype = "datetime64",
                   !.columns = @ \cup {"Date_Only"}]

create_research_insights(o) ==
    <<Md("Research Insights & Recommendations"), Md("Key Research Findings"),
      Md("Actionable Recommendations")>>

\* the analysis views of run_dashboard whose builders read the loaded data
Pages == {"Overview", "Categories", "Subcategories", "Intensity", "Engagement",
          "Linguistics", "Media", "Temporal", "Insights"}

\* the dispatch on selected_page
PageElements(p, o) ==
    CASE p = "Overview" -> create_overview_metrics(o)
      [] p = "Categories" -> create_category_distribution(o)
      [] p = "Subcategories" -> create_subcategory_analysis(o)
      [] p = "Intensity" -> create_intensity_analysis(o)
      [] p = "Engagement" -> create_engagement_analysis(o)
      [] p = "Linguistics" -> create_linguistic_markers(o)
      [] p = "Media" -> create_media_analysis(o)
      [] p = "Temporal" -> create_temporal_analysis(o)
      [] p = "Insights" -> create_research_insights(o)

\* the plotly figures among the elements of a page
Figures(els) ==
    {i \in 1..Len(els) : els[i].chart \notin {"markdown", "metric", "insight",
                                              "media_type", "raise"}}

---------------------------------------------------------------------------
(* Streamlit sessions.  Every interaction of a browser session with a widget  *)
(* reruns the whole script from the top in that session's thread: the         *)
(* script constructs a new TelegramAnalysisDashboard and calls run_dashboard. *)
(* Sessions of one server run concurrently in one process and one working     *)
(* directory.                                                                 *)

\* dashboard = TelegramAnalysisDashboard()
NoDash == [df |-> None, summary_data |-> None]

Sessions == {"s1", "s2"}

\* no file at a path
NoFile == [no_file |-> TRUE]

NoTemp == [csv |-> NoFile, json |-> NoFile]

\* st.button(label) drawn on the page
Button(l) == [chart |-> "button", label |-> l]

\* a session that has connected: no uploads, the radio's first option
\* selected, its first script run about to start.  event is the widget
\* interaction that started the script run in progress (a button reads True
\* only in the run its click started).  The fields loaded and held are
\* histories of the session, not state of the program: what its last
\* successful load took in, and the data its last finished script run held.
NewSession ==
    [csv_file |-> None,
     json_file |-> None,
     selected_page |-> "Overview",
     event |-> "none",
     dashboard |-> NoDash,
     paths |-> "unset",
     data_loaded |-> FALSE,
     pc |-> "run",
     rendered |-> <<>>,
     loaded |-> "none",
     held |-> NoDash]

\* the session's script thread is not running
IdleSession == [NewSession EXCEPT !.pc = "idle"]

---------------------------------------------------------------------------
(* streamlit_app.py: the cloud dashboard *)

\* the summary literal of the cloud load_sample_data
CloudSampleSummary ==
    [analysis_summary |->
        [total_messages_analyzed |-> 12000,
         relevant_messages_found |-> 1315,
         relevance_rate |-> 10960],
     category_distribution |->
        << <<1, 1245>>, <<2, 35>>, <<3, 30>>, <<4, 5>> >>,
     subcategory_distribution |->
        << <<3, 1280>>, <<2, 35>>, <<1, 30>>, <<4, 25>> >>,
     intensity_distribution |->
        << << <<1>>, 1312 >>, << <<2>>, 3 >> >>,
     engagement_analysis |->
        [viral_messages |-> 1129,
         average_views |-> 8547000,
         average_forwards |-> 2100,
         max_views |-> 89000],
     top_linguistic_markers |->
        << <<1, 977>>, <<2, 156>>, <<3, 89>>, <<4, 67>>, <<5, 45>>,
           <<6, 34>>, <<7, 23>>, <<8, 12>> >>,
     content_with_media |-> 700,
     media_distribution |-> << <<1, 450>>, <<2, 250>> >>]

\* one row of the cloud sample frame: i counts from 0, the date is the
\* (i % 365)-th day of the range that starts on 2024-01-01, day 1
CloudSampleRow(i, views, forwards) ==
    CsvRow(i + 1, views, forwards, 1 + (i % 365),
           <<"LGBTQ+ Hate Speech & Anti-Rights Rhetoric">>, 1)

\* np.random.randint(100, 50000) and np.random.randint(0, 10): the ends of
\* the half-open ranges
CloudViews == {100, 49999}

CloudForwards == {0, 9}

CloudSampleFrames ==
    {[columns |-> CsvColumns,
      date_dtype |-> "datetime64",
      rows |-> <<CloudSampleRow(0, 25000, 5), CloudSampleRow(365, v, f)>>]
     : v \in CloudViews, f \in CloudForwards}

\* the views of the cloud run_dashboard
CloudPages == {"Overview", "Categories", "Engagement", "Insights"}

\* show_upload_interface up to the demo section; the load button is drawn
\* when both uploaders hold a file
UploadInterface(both) ==
    <<Md("main-header"), Md("Upload Your Analysis Results")>>
    \o (IF both THEN <<Button("Load Analysis Data")>> ELSE <<>>)

DemoSection == <<Md("Demo Mode"), Button("Load Demo Data")>>

\* files the user of the cloud dashboard uploads
CloudCsvUploads == {CsvFrame, Malformed}

CloudJsonUploads == {SampleSummary, Malformed}

\* the session that uses the cloud dashboard
CloudSessions == {"s1"}

---------------------------------------------------------------------------
(* The static generator: main() and generate_html_dashboard *)

Dirs == {"combined", "single"}

Kinds == {"csv", "json"}

\* os.path.exists of the file of kind k in directory tier d
Exists(f, d, k) == f[<<d, k>>]

NoHtml == [none |-> TRUE]

\* a report left at output_path by an earlier run
OldReport ==
    [metrics |-> << <<6, 0>>, <<658>>, <<10, 97>>, <<500>> >>,
     sections |-> <<Empty, Empty, Empty, Empty, Empty, Empty, Empty>>]

\* variant of Main that falls back for each file on its own
MainPerFile ==
    /\ pc = "main"
    /\ csv_path' = IF Exists(fs, "combined", "csv") THEN "combined" ELSE "single"
    /\ json_path' = IF Exists(fs, "combined", "json") THEN "combined" ELSE "single"
    /\ use_sample' = ~(Exists(fs, csv_path', "csv") /\ Exists(fs, json_path', "json"))
    /\ pc' = "generate"
    /\ UNCHANGED <<fs, csv_content, json_content, df, summary_data, charts,
                   html_content, out_file, ret, dash, rendered>>
    /\ UNCHANGED webVars

\* main(): the two-tier path fallback and the use_sample decision
Main ==
    /\ pc = "main"
    /\ LET tier == IF ~Exists(fs, "combined", "csv") \/ ~Exists(fs, "combined", "json")
                   THEN "single" ELSE "combined"
       IN /\ csv_path' = tier
          /\ json_path' = tier
          /\ use_sample' = ~(Exists(fs, tier, "csv") /\ Exists(fs, tier, "json"))
    /\ pc' = "generate"
    /\ UNCHANGED <<fs, csv_content, json_content, df, summary_data, charts,
                   html_content, out_file, ret, dash, rendered>>
    /\ UNCHANGED webVars

\* another process removes one of the selected input files between main()'s
\* existence check and the load
EnvRemoveFile ==
    /\ pc = "generate"
    /\ \E k \in Kinds :
          LET d == IF k = "csv" THEN csv_path ELSE json_path
          IN /\ Exists(fs, d, k)
             /\ fs' = [fs EXCEPT ![<<d, k>>] = FALSE]
    /\ UNCHANGED <<csv_content, json_content, csv_path, json_path, use_sample,
                   df, summary_data, charts, html_content, out_file, pc, ret,
                   dash, rendered>>
    /\ UNCHANGED webVars

\* pd.read_csv(path): the frame, or Malformed when it raises
read_csv(f, d, content) ==
    IF Exists(f, d, "csv") THEN content ELSE Malformed

\* json.load(open(path)): the document, or Malformed when it raises
json_load(f, d, content) ==
    IF Exists(f, d, "json") THEN content ELSE Malformed

\* the fields after the try block of load_data: an assignment made before the
\* exception stays
load_df(old, frame) == IF frame = Malformed THEN old ELSE frame

load_summary(old, frame, doc) ==
    IF frame = Malformed \/ doc = Malformed THEN old ELSE doc

\* variant of load_ok that looks at the CSV only
load_ok_csv_only(frame, doc) == frame # Malformed

\* load_data returns True: neither statement of the try block raised
load_ok(frame, doc) == frame # Malformed /\ doc # Malformed

\* generate_html_dashboard, use_sample_data=False: self.load_data()
LoadData ==
    /\ pc = "generate"
    /\ ~use_sample
    /\ LET frame == read_csv(fs, csv_path, csv_content)
           doc == json_load(fs, json_path, json_content)
       IN /\ df' = load_df(df, frame)
          /\ summary_data' = load_summary(summary_data, frame, doc)
          /\ IF load_ok(frame, doc)
             THEN pc' = "charts" /\ ret' = ret
             ELSE pc' = "exit" /\ ret' = "False"
    /\ UNCHANGED <<fs, csv_content, json_content, csv_path, json_path,
                   use_sample, charts, html_content, out_file, dash, rendered>>
    /\ UNCHANGED webVars

\* generate_html_dashboard, use_sample_data=True: self.load_sample_data()
LoadSampleData ==
    /\ pc = "generate"
    /\ use_sample
    /\ summary_data' = SampleSummary
    /\ df' \in SampleFrames
    /\ pc' = "charts"
    /\ UNCHANGED <<fs, csv_content, json_content, csv_path, json_path,
                   use_sample, charts, html_content, out_file, ret, dash,
                   rendered>>
    /\ UNCHANGED webVars

\* variant of CreateChart in which generate_html_dashboard catches a
\* builder's exception and returns False
CreateChartCaught ==
    /\ pc = "charts"
    /\ LET b == BuilderOrder[Len(charts) + 1]
           r == RunBuilder(b, summary_data, df)
       IN IF IsRaise(r)
          THEN /\ pc' = "exit"
               /\ ret' = "False"
               /\ UNCHANGED <<charts, df, summary_data>>
          ELSE /\ charts' = Append(charts, r)
               /\ df' = IF b = "timeline" THEN timeline_df(df) ELSE df
               /\ summary_data' = summary_after(b, summary_data)
               /\ pc' = IF Len(charts) + 1 = Len(BuilderOrder)
                        THEN "assemble" ELSE "charts"
               /\ ret' = ret
    /\ UNCHANGED <<fs, csv_content, json_content, csv_path, json_path,
                   use_sample, html_content, out_file, dash, rendered>>
    /\ UNCHANGED webVars

\* the next builder call of generate_html_dashboard; an exception leaves
\* generate_html_dashboard and main()
CreateChart ==
    /\ pc = "charts"
    /\ LET b == BuilderOrder[Len(charts) + 1]
           r == RunBuilder(b, summary_data, df)
       IN IF IsRaise(r)
          THEN /\ pc' = "exit"
               /\ ret' = r.exc
               /\ UNCHANGED <<charts, df, summary_data>>
          ELSE /\ charts' = Append(charts, r)
               /\ df' = IF b = "timeline" THEN timeline_df(df) ELSE df
               /\ summary_data' = summary_after(b, summary_data)
               /\ pc' = IF Len(charts) + 1 = Len(BuilderOrder)
                        THEN "assemble" ELSE "charts"
               /\ ret' = ret
    /\ UNCHANGED <<fs, csv_content, json_content, csv_path, json_path,
                   use_sample, html_content, out_file, dash, rendered>>
    /\ UNCHANGED webVars

\* what reading the summary statistics and formatting the template raises,
\* "" when nothing
AssembleError(sd) ==
    IF sd = None THEN "TypeError"
    ELSE IF "analysis_summary" \notin DOMAIN sd THEN "KeyError"
    ELSE IF ~({"total_messages_analyzed", "relevant_messages_found",
               "relevance_rate"} \subseteq DOMAIN sd.analysis_summary)
         THEN "KeyError"
    ELSE ""

\* the charts the template interpolates, in page order
TemplateSlots == <<"overview", "category", "intensity", "subcategory",
                   "linguistic", "engagement", "media">>

\* html_content: the four metric cards and the chart containers
HtmlTemplate(sd, cs) ==
    LET summary == sd.analysis_summary
        engagement == Get(sd, "engagement_analysis", EmptyDict)
    IN [metrics |-> <<ThousandsGroups(summary.total_messages_analyzed),
                      ThousandsGroups(summary.relevant_messages_found),
                      Fixed2(summary.relevance_rate),
                      ThousandsGroups(Get(engagement, "viral_messages", 0))>>,
        sections |-> [i \in 1..Len(TemplateSlots) |->
                        cs[BuilderIndex(TemplateSlots[i])]]]

\* summary statistics and the HTML template
Assemble ==
    /\ pc = "assemble"
    /\ IF AssembleError(summary_data) # ""
       THEN /\ pc' = "exit"
            /\ ret' = AssembleError(summary_data)
            /\ UNCHANGED html_content
       ELSE /\ html_content' = HtmlTemplate(summary_data, charts)
            /\ pc' = "write"
            /\ ret' = ret
    /\ UNCHANGED <<fs, csv_content, json_content, csv_path, json_path,
                   use_sample, df, summary_data, charts, out_file, dash,
                   rendered>>
    /\ UNCHANGED webVars

\* open(output_path, 'w'): the file is created or truncated
OpenOutput ==
    /\ pc = "write"
    /\ out_file' = [state |-> "empty", content |-> NoHtml]
    /\ pc' = "opened"
    /\ UNCHANGED <<fs, csv_content, json_content, csv_path, json_path,
                   use_sample, df, summary_data, charts, html_content, ret,
                   dash, rendered>>
    /\ UNCHANGED webVars

\* variant of WriteOutput in which generate_html_dashboard reports success
\* from inside the with block
WriteOutputReturning ==
    /\ pc = "opened"
    /\ \/ out_file' = out_file
       \/ out_file' = [state |-> "partial", content |-> html_content]
    /\ pc' = "buffered"
    /\ ret' = "True"
    /\ UNCHANGED <<fs, csv_content, json_content, csv_path, json_path,
                   use_sample, df, summary_data, charts, html_content,
                   dash, rendered>>
    /\ UNCHANGED webVars

\* f.write(html_content): the text goes to the file object's buffer, and the
\* part that exceeds the buffer reaches the file at once
WriteOutput ==
    /\ pc = "opened"
    /\ \/ out_file' = out_file
       \/ out_file' = [state |-> "partial", content |-> html_content]
    /\ pc' = "buffered"
    /\ UNCHANGED <<fs, csv_content, json_content, csv_path, json_path,
                   use_sample, df, summary_data, charts, html_content, ret,
                   dash, rendered>>
    /\ UNCHANGED webVars

\* leaving the with block flushes and closes; generate_html_dashboard returns
\* True
CloseOutput ==
    /\ pc = "buffered"
    /\ out_file' = [state |-> "complete", content |-> html_content]
    /\ pc' = "exit"
    /\ ret' = "True"
    /\ UNCHANGED <<fs, csv_content, json_content, csv_path, json_path,
                   use_sample, df, summary_data, charts, html_content, dash,
                   rendered>>
    /\ UNCHANGED webVars

\* the process is killed (or the machine stops) while the file is open
Crash ==
    /\ pc \in {"opened", "buffered"}
    /\ pc' = "killed"
    /\ UNCHANGED <<fs, csv_content, json_content, csv_path, json_path,
                   use_sample, df, summary_data, charts, html_content,
                   out_file, ret, dash, rendered>>
    /\ UNCHANGED webVars

Init ==
    /\ fs \in [Dirs \X Kinds -> BOOLEAN]
    /\ csv_content \in CsvContents
    /\ json_content \in JsonContents
    /\ csv_path = "unset"
    /\ json_path = "unset"
    /\ use_sample = FALSE
    /\ df = None
    /\ summary_data = None
    /\ charts = <<>>
    /\ html_content = NoHtml
    /\ out_file \in {[state |-> "absent", content |-> NoHtml],
                     [state |-> "old", content |-> OldReport]}
    /\ pc = "main"
    /\ ret = "none"
    /\ dash = NoDash
    /\ rendered = <<>>
    /\ sessions = [s \in Sessions |-> IdleSession]
    /\ temp_files = NoTemp

Next ==
    \/ Main
    \/ EnvRemoveFile
    \/ LoadData
    \/ LoadSampleData
    \/ CreateChart
    \/ Assemble
    \/ OpenOutput
    \/ WriteOutput
    \/ CloseOutput
    \/ Crash

Spec == Init /\ [][Next]_vars

---------------------------------------------------------------------------
(* The builders on arbitrary loaded data *)

\* an ordered dict of n entries: "sorted" has descending counts, as the
\* upstream analyzer writes it, "ascending" has its largest counts last,
\* "shuffled" has keys and counts in no order
MkDict(n, o) ==
    [i \in 1..n |->
       CASE o = "sorted" -> <<i, 200 - 3 * i>>
         [] o = "ascending" -> <<i, 5 * i>>
         [] o = "shuffled" -> <<(i * 7) % 19, ((i * 5) % 7) + 1>>]

OrderedDicts ==
    {MkDict(n, o) : n \in 0..MaxEntries, o \in {"sorted", "ascending", "shuffled"}}

RequiredKeys == {"analysis_summary"}

\* documents with media counts below, at and above the relevant total
MediaDocs ==
    {[SampleSummary EXCEPT !.content_with_media = m,
                           !.analysis_summary.relevant_messages_found = t] :
        m \in {0, 700, 1400}, t \in {0, 1315}}

\* documents for the builders: every combination of optional keys, with and
\* without the required key, then distributions of every length and order
BuilderDocs ==
    {WithoutKeys(SampleSummary, ks) : ks \in SUBSET OptionalKeys}
    \cup {WithoutKeys(SampleSummary, ks \cup RequiredKeys) : ks \in SUBSET OptionalKeys}
    \cup {None, EmptyDict,
          [SampleSummary EXCEPT !.analysis_summary = WithoutKeys(@, {"relevance_rate"})],
          [SampleSummary EXCEPT !.category_distribution = << <<1, 3>>, <<2, 1>> >>],
          [SampleSummary EXCEPT !.category_distribution = MkDict(MaxEntries, "shuffled")],
          [SampleSummary EXCEPT !.intensity_distribution =
              << << <<2>>, 5 >>, << <<1, 0>>, 7 >>, << <<1>>, 9 >> >>],
          [SampleSummary EXCEPT !.intensity_distribution =
              << << <<3>>, 4 >>, << <<2>>, 4 >>, << <<1>>, 7 >> >>]}
    \cup MediaDocs
    \cup {[SampleSummary EXCEPT !.subcategory_distribution = od] : od \in OrderedDicts}
    \cup {[SampleSummary EXCEPT !.top_linguistic_markers = od] : od \in OrderedDicts}

ExpectedColumns == {"Views", "Forwards", "Intensity_Score", "Categories"}

\* frames for the builders: each expected column missing, alone and together
BuilderFrames ==
    {WithoutColumns(CsvFrame, cs) : cs \in SUBSET ExpectedColumns}
    \cup {None,
          WithoutColumns(CsvFrame, {"Date"}),
          WithoutColumns(CsvFrame, {"Date", "Categories"}),
          WithBadDate(CsvFrame)}
    \cup SampleFrames

\* run_dashboard's dispatch: the selected page is rendered from the data the
\* dashboard object holds
RenderPage ==
    /\ \E p \in Pages :
          /\ rendered' = PageElements(p, dash)
          /\ dash' = [dash EXCEPT !.df = IF p = "Temporal" THEN temporal_df(@) ELSE @]
    /\ UNCHANGED <<fs, csv_content, json_content, csv_path, json_path,
                   use_sample, df, summary_data, charts, html_content,
                   out_file, pc, ret>>
    /\ UNCHANGED webVars

\* both objects hold the same loaded pair
InitBuilders ==
    /\ fs = [f \in Dirs \X Kinds |-> FALSE]
    /\ csv_content = Malformed
    /\ json_content = Malformed
    /\ csv_path = "unset"
    /\ json_path = "unset"
    /\ use_sample = FALSE
    /\ \/ summary_data \in BuilderDocs /\ df = CsvFrame
       \/ summary_data = SampleSummary /\ df \in BuilderFrames
       \/ summary_data = CloudSampleSummary /\ df \in CloudSampleFrames
    /\ dash = [df |-> df, summary_data |-> summary_data]
    /\ charts = <<>>
    /\ html_content = NoHtml
    /\ out_file = [state |-> "absent", content |-> NoHtml]
    /\ pc = "charts"
    /\ ret = "none"
    /\ rendered = <<>>
    /\ sessions = [s \in Sessions |-> IdleSession]
    /\ temp_files = NoTemp

NextBuilders ==
    \/ CreateChart
    \/ Assemble
    \/ RenderPage

SpecBuilders == InitBuilders /\ [][NextBuilders]_vars

---------------------------------------------------------------------------
(* streamlit_app.py: script runs of the cloud dashboard *)

\* the variables of the static generator run
staticRun == <<csv_path, json_path, use_sample, df, summary_data, charts,
               html_content, out_file, pc, ret, dash, rendered>>

\* no static generator run takes place
StaticIdle ==
    /\ csv_path = "unset"
    /\ json_path = "unset"
    /\ use_sample = FALSE
    /\ df = None
    /\ summary_data = None
    /\ charts = <<>>
    /\ html_content = NoHtml
    /\ out_file = [state |-> "absent", content |-> NoHtml]
    /\ pc = "exit"
    /\ ret = "none"
    /\ dash = NoDash
    /\ rendered = <<>>

\* the last script run of the session drew button b
Shows(ss, b) == \E i \in 1..Len(ss.rendered) : ss.rendered[i] = Button(b)

\* a script run of the session starts: the script constructs a new
\* dashboard object
StartRun(ss, ev) ==
    [ss EXCEPT !.event = ev,
               !.dashboard = NoDash,
               !.paths = "unset",
               !.data_loaded = FALSE,
               !.rendered = <<>>,
               !.pc = "run"]

\* the user changes a widget the page shows, which reruns the script
CloudInteract(s) ==
    LET ss == sessions[s]
    IN /\ ss.pc = "idle"
       /\ \/ /\ Shows(ss, "Load Demo Data")
             /\ \E c \in CloudCsvUploads :
                   sessions' = [sessions EXCEPT
                                  ![s] = StartRun([ss EXCEPT !.csv_file = c], "upload")]
          \/ /\ Shows(ss, "Load Demo Data")
             /\ \E j \in CloudJsonUploads :
                   sessions' = [sessions EXCEPT
                                  ![s] = StartRun([ss EXCEPT !.json_file = j], "upload")]
          \/ /\ Shows(ss, "Load Analysis Data")
             /\ sessions' = [sessions EXCEPT ![s] = StartRun(ss, "load")]
          \/ /\ Shows(ss, "Load Demo Data")
             /\ sessions' = [sessions EXCEPT ![s] = StartRun(ss, "demo")]
          \/ /\ Shows(ss, "Upload New Data")
             /\ \E p \in CloudPages :
                   sessions' = [sessions EXCEPT
                                  ![s] = StartRun([ss EXCEPT !.selected_page = p], "page")]
          \/ /\ Shows(ss, "Upload New Data")
             /\ sessions' = [sessions EXCEPT ![s] = StartRun(ss, "reset")]
       /\ UNCHANGED <<fs, csv_content, json_content, staticRun, temp_files>>

\* run_dashboard of the cloud script, up to the end of the script or to
\* st.experimental_rerun()
CloudRunDashboard(s) ==
    LET ss == sessions[s]
        o == ss.dashboard
        both == ss.csv_file # None /\ ss.json_file # None
    IN /\ ss.pc = "run"
       /\ IF o.df = None \/ o.summary_data = None
          THEN \* show_upload_interface
               CASE ss.event = "load" /\ both ->
                      LET frame == ss.csv_file
                          doc == ss.json_file
                          obj == [df |-> load_df(o.df, frame),
                                  summary_data |-> load_summary(o.summary_data, frame, doc)]
                      IN IF load_ok(frame, doc)
                         THEN sessions' = [sessions EXCEPT ![s] =
                                [ss EXCEPT !.dashboard = obj,
                                           !.rendered = UploadInterface(both)
                                              \o <<Md("Analysis data loaded successfully")>>,
                                           !.loaded = "files",
                                           !.pc = "rerun"]]
                         ELSE sessions' = [sessions EXCEPT ![s] =
                                [ss EXCEPT !.dashboard = obj,
                                           !.rendered = UploadInterface(both)
                                              \o <<Md("Error loading data")>>
                                              \o DemoSection,
                                           !.pc = "idle"]]
                 [] ss.event = "demo" ->
                      \E d \in CloudSampleFrames :
                         sessions' = [sessions EXCEPT ![s] =
                           [ss EXCEPT !.dashboard = [df |-> d,
                                                     summary_data |-> CloudSampleSummary],
                                      !.rendered = UploadInterface(both) \o DemoSection
                                                     \o <<Md("Demo data loaded")>>,
                                      !.loaded = "sample",
                                      !.pc = "rerun"]]
                 [] OTHER ->
                      sessions' = [sessions EXCEPT ![s] =
                        [ss EXCEPT !.rendered = UploadInterface(both) \o DemoSection,
                                   !.pc = "idle"]]
          ELSE \* the selected page, then the sidebar's reset button
               sessions' = [sessions EXCEPT ![s] =
                 [ss EXCEPT !.rendered = Elements(<<PageElements(ss.selected_page, o),
                                                    <<Button("Upload New Data")>> >>),
                            !.loaded = IF ss.event = "reset" THEN "none" ELSE @,
                            !.pc = IF ss.event = "reset" THEN "rerun" ELSE "idle"]]
       /\ UNCHANGED <<fs, csv_content, json_content, staticRun, temp_files>>

\* st.experimental_rerun(): the script run ends and the script runs again
\* from the top
CloudRerun(s) ==
    /\ sessions[s].pc = "rerun"
    /\ sessions' = [sessions EXCEPT ![s] = StartRun(@, "none")]
    /\ UNCHANGED <<fs, csv_content, json_content, staticRun, temp_files>>

InitCloud ==
    /\ fs = [f \in Dirs \X Kinds |-> FALSE]
    /\ csv_content = Malformed
    /\ json_content = Malformed
    /\ StaticIdle
    /\ sessions = [s \in Sessions |->
                     IF s \in CloudSessions THEN NewSession ELSE IdleSession]
    /\ temp_files = NoTemp

NextCloud ==
    \E s \in CloudSessions :
        \/ CloudInteract(s)
        \/ CloudRunDashboard(s)
        \/ CloudRerun(s)

SpecCloud == InitCloud /\ [][NextCloud]_vars

---------------------------------------------------------------------------
(* telegram_analysis_dashboard.py: script runs of the local dashboard *)

\* the CSV and JSON files a session's user uploads
OwnCsv(s) ==
    IF s = "s1" THEN CsvFrame
    ELSE [CsvFrame EXCEPT !.rows = <<CsvRow(1, 500, 1, 20, <<"B">>, 3)>>]

OwnJson(s) ==
    IF s = "s1" THEN SampleSummary
    ELSE [SampleSummary EXCEPT !.category_distribution = << <<1, 3>>, <<2, 1>> >>]

\* an uploaded JSON file whose text is the literal null
NullJson == [json_null |-> TRUE]

\* json.load of a file's text: null gives None
json_value(c) == IF c = NullJson THEN None ELSE c

\* what a session's user can put into the uploaders: the session's own
\* files and, for the first session, files that do not parse and the null
\* document
CsvUploads(s) ==
    IF s = "s1" THEN {OwnCsv(s), Malformed} ELSE {OwnCsv(s)}

JsonUploads(s) ==
    IF s = "s1" THEN {OwnJson(s), Malformed, NullJson} ELSE {OwnJson(s)}

\* the user puts a file into one of the two sidebar uploaders, or removes it
DashUpload(s) ==
    LET ss == sessions[s]
    IN /\ ss.pc = "idle"
       /\ \/ \E c \in CsvUploads(s) \cup {None} :
               /\ c # ss.csv_file
               /\ sessions' = [sessions EXCEPT
                                 ![s] = StartRun([ss EXCEPT !.csv_file = c], "upload")]
          \/ \E j \in JsonUploads(s) \cup {None} :
               /\ j # ss.json_file
               /\ sessions' = [sessions EXCEPT
                                 ![s] = StartRun([ss EXCEPT !.json_file = j], "upload")]
       /\ UNCHANGED <<fs, csv_content, json_content, staticRun, temp_files>>

\* the user selects another view on the sidebar radio, which the page shows
\* once data is loaded
DashSelectPage(s) ==
    LET ss == sessions[s]
    IN /\ ss.pc = "idle"
       /\ ss.data_loaded
       /\ \E p \in Pages \ {ss.selected_page} :
             sessions' = [sessions EXCEPT
                            ![s] = StartRun([ss EXCEPT !.selected_page = p], "page")]
       /\ UNCHANGED <<fs, csv_content, json_content, staticRun, temp_files>>

\* both uploaders hold a file
BothUploaded(ss) == ss.csv_file # None /\ ss.json_file # None

\* default_csv / default_json: the directory tier after the fallback
DefaultTier(f) ==
    IF ~Exists(f, "combined", "csv") \/ ~Exists(f, "combined", "json")
    THEN "single" ELSE "combined"

DefaultsExist(f) ==
    Exists(f, DefaultTier(f), "csv") /\ Exists(f, DefaultTier(f), "json")

\* with open("temp_analysis.csv", "wb") as f: f.write(csv_file.getvalue())
DashSaveCsv(s) ==
    LET ss == sessions[s]
    IN /\ ss.pc = "run"
       /\ BothUploaded(ss)
       /\ temp_files' = [temp_files EXCEPT !.csv = ss.csv_file]
       /\ sessions' = [sessions EXCEPT ![s] = [ss EXCEPT !.pc = "csv_saved"]]
       /\ UNCHANGED <<fs, csv_content, json_content, staticRun>>

\* with open("temp_summary.json", "wb") as f: f.write(json_file.getvalue())
DashSaveJson(s) ==
    LET ss == sessions[s]
    IN /\ ss.pc = "csv_saved"
       /\ temp_files' = [temp_files EXCEPT !.json = ss.json_file]
       /\ sessions' = [sessions EXCEPT ![s] = [ss EXCEPT !.paths = "temp",
                                                         !.pc = "load"]]
       /\ UNCHANGED <<fs, csv_content, json_content, staticRun>>

\* what reading the file of kind k at the session's paths yields
ReadAt(paths, k) ==
    IF paths = "temp"
    THEN IF temp_files[k] = NoFile THEN Malformed ELSE json_value(temp_files[k])
    ELSE IF k = "csv" THEN read_csv(fs, paths, csv_content)
         ELSE json_load(fs, paths, json_content)

\* load_data, first statement: self.df = pd.read_csv(csv_path), on the
\* temporary files or, without an uploaded pair, on the default files
DashReadCsv(s) ==
    LET ss == sessions[s]
        paths == IF ss.pc = "load" THEN ss.paths ELSE DefaultTier(fs)
        frame == ReadAt(paths, "csv")
    IN /\ \/ ss.pc = "load"
          \/ ss.pc = "run" /\ ~BothUploaded(ss) /\ DefaultsExist(fs)
       /\ sessions' = [sessions EXCEPT ![s] =
            [ss EXCEPT !.paths = paths,
                       !.dashboard.df = load_df(@, frame),
                       !.pc = IF frame = Malformed THEN "render" ELSE "csv_read"]]
       /\ UNCHANGED <<fs, csv_content, json_content, staticRun, temp_files>>

\* load_data, second statement: self.summary_data = json.load(f)
DashReadJson(s) ==
    LET ss == sessions[s]
        doc == ReadAt(ss.paths, "json")
    IN /\ ss.pc = "csv_read"
       /\ sessions' = [sessions EXCEPT ![s] =
            [ss EXCEPT !.dashboard.summary_data = IF doc = Malformed THEN @ ELSE doc,
                       !.data_loaded = doc # Malformed,
                       !.loaded = IF doc = Malformed THEN @
                                  ELSE IF ss.paths = "temp" THEN "files" ELSE "default",
                       !.pc = "render"]]
       /\ UNCHANGED <<fs, csv_content, json_content, staticRun, temp_files>>

\* the rest of run_dashboard: the error message when nothing was loaded,
\* else the selected page
DashRender(s) ==
    LET ss == sessions[s]
        o == ss.dashboard
    IN /\ \/ ss.pc = "render"
          \/ ss.pc = "run" /\ ~BothUploaded(ss) /\ ~DefaultsExist(fs)
       /\ IF ~ss.data_loaded
          THEN sessions' = [sessions EXCEPT ![s] =
                 [ss EXCEPT !.rendered = <<Md("Please upload analysis results")>>,
                            !.held = NoDash,
                            !.pc = "idle"]]
          ELSE LET after == [o EXCEPT !.df = IF ss.selected_page = "Temporal"
                                             THEN temporal_df(@) ELSE @]
               IN sessions' = [sessions EXCEPT ![s] =
                    [ss EXCEPT !.rendered = PageElements(ss.selected_page, o),
                               !.dashboard = after,
                               !.held = after,
                               !.pc = "idle"]]
       /\ UNCHANGED <<fs, csv_content, json_content, staticRun, temp_files>>

\* documents and frames the upstream analysis writes to the default files
DefaultDocs ==
    {SampleSummary,
     [SampleSummary EXCEPT !.analysis_summary.total_messages_analyzed = 12500,
                           !.content_with_media = 710]}

DefaultFrames == {CsvFrame, OwnCsv("s2")}

\* the upstream analysis runs again and rewrites the default files
EnvRewriteDefaults ==
    /\ DefaultsExist(fs)
    /\ csv_content' \in DefaultFrames
    /\ json_content' \in DefaultDocs
    /\ <<csv_content', json_content'>> # <<csv_content, json_content>>
    /\ UNCHANGED <<fs, staticRun, sessions, temp_files>>

\* two sessions of one server, no default files
InitSessions ==
    /\ fs = [f \in Dirs \X Kinds |-> FALSE]
    /\ csv_content = Malformed
    /\ json_content = Malformed
    /\ StaticIdle
    /\ sessions = [s \in Sessions |-> NewSession]
    /\ temp_files = NoTemp

NextSessions ==
    \E s \in Sessions :
        \/ DashUpload(s)
        \/ DashSaveCsv(s)
        \/ DashSaveJson(s)
        \/ DashReadCsv(s)
        \/ DashReadJson(s)
        \/ DashRender(s)

SpecSessions == InitSessions /\ [][NextSessions]_vars

\* the session whose user browses the pages
Browsing == {"s1"}

\* one session, with default files of either tier or none
InitDash ==
    /\ fs \in {[f \in Dirs \X Kinds |-> TRUE],
               [f \in Dirs \X Kinds |-> f[1] = "single"],
               [f \in Dirs \X Kinds |-> FALSE]}
    /\ csv_content = CsvFrame
    /\ json_content = SampleSummary
    /\ StaticIdle
    /\ sessions = [s \in Sessions |->
                     IF s \in Browsing THEN NewSession ELSE IdleSession]
    /\ temp_files = NoTemp

NextDash ==
    \/ \E s \in Browsing :
          \/ DashUpload(s)
          \/ DashSelectPage(s)
          \/ DashSaveCsv(s)
          \/ DashSaveJson(s)
          \/ DashReadCsv(s)
          \/ DashReadJson(s)
          \/ DashRender(s)
    \/ EnvRewriteDefaults

SpecDash == InitDash /\ [][NextDash]_vars

---------------------------------------------------------------------------
(* Properties of loading and of the static report (under Spec) *)

\* the static run has left load_data
Loaded == pc \notin {"main", "generate"} /\ ~use_sample

\* C1: loading has no partial success: after load_data either the call
\* reported success and both fields hold what the two files gave, or it
\* reported failure and neither field was set by the call.
C1_NoPartialLoad ==
    Loaded =>
        IF ret = "False"
        THEN df = None /\ summary_data = None
        ELSE summary_data = json_content /\ df # None

\* the real inputs at the selected paths cannot be loaded
RealInputsFail ==
    ~load_ok(read_csv(fs, csv_path, csv_content),
             json_load(fs, json_path, json_content))

\* C2: in the static generator every load failure of the real inputs (file
\* missing, unparsable, or gone after the existence check) is substituted
\* with synthetic data, so that main() still produces the report.
C2_LoadFailureSubstituted ==
    (pc = "exit" /\ RealInputsFail) =>
        /\ summary_data = SampleSummary
        /\ ret = "True"
        /\ out_file.state = "complete"

\* C3: the written report contains the output of every one of the nine
\* builders that generate_html_dashboard ran.
C3_AllChartsInReport ==
    out_file.state = "complete" =>
        \A i \in 1..Len(charts) :
            charts[i] # Empty =>
                \E j \in 1..Len(out_file.content.sections) :
                    out_file.content.sections[j] = charts[i]

\* C4: when all nine builders returned without raising, the assembly
\* raises nothing: generate_html_dashboard writes the report and returns True.
C4_AssemblySucceeds ==
    (pc = "exit" /\ Len(charts) = Len(BuilderOrder)) =>
        /\ ret = "True"
        /\ out_file = [state |-> "complete", content |-> html_content]

\* C5: the report is written atomically: at every point the output path
\* holds its previous content (or no file) or the complete new report.
C5_AtomicWrite ==
    out_file.state \in {"absent", "old", "complete"}

---------------------------------------------------------------------------
(* Properties of the builders (under SpecBuilders) *)

\* the builder that reads optional key k
CorrespondingBuilder(k) ==
    CASE k = "category_distribution" -> "category"
      [] k = "subcategory_distribution" -> "subcategory"
      [] k = "intensity_distribution" -> "intensity"
      [] k = "top_linguistic_markers" -> "linguistic"
      [] k = "content_with_media" -> "media"
      [] k = "engagement_analysis" -> "overview"

\* values an optional key can hold
KeyValues(k) ==
    CASE k = "content_with_media" -> {0, 700}
      [] k = "engagement_analysis" ->
            {SampleSummary.engagement_analysis, [viral_messages |-> 7]}
      [] k = "subcategory_distribution" ->
            {SampleSummary.subcategory_distribution, MkDict(3, "ascending")}
      [] OTHER -> {SampleSummary[k]}

\* the document with key k holding v
WithKey(sd, k, v) == [x \in DOMAIN sd \cup {k} |-> IF x = k THEN v ELSE sd[x]]

\* a dict that carries the required analysis_summary fields
RequiredPresent(sd) ==
    /\ Truthy(sd)
    /\ "analysis_summary" \in DOMAIN sd
    /\ {"total_messages_analyzed", "relevant_messages_found", "relevance_rate"}
          \subseteq DOMAIN sd.analysis_summary

\* every builder run so far, other than the one that reads k, returned what
\* it returns on the document with k present
OthersUnaffected(k) ==
    \A i \in 1..Len(charts) :
        BuilderOrder[i] # CorrespondingBuilder(k) =>
            \A v \in KeyValues(k) :
                charts[i] = RunBuilder(BuilderOrder[i], WithKey(summary_data, k, v), df)

GuardedKeys == {"category_distribution", "subcategory_distribution",
                "intensity_distribution", "top_linguistic_markers"}

RaisedAt(b) ==
    /\ pc = "exit"
    /\ ret \notin {"none", "True", "False"}
    /\ Len(charts) < Len(BuilderOrder)
    /\ BuilderOrder[Len(charts) + 1] = b

EngagementHeader == Md("Engagement & Viral Spread Analysis")

\* the last render was of the page with this header
Showing(h) == rendered # <<>> /\ rendered[1] = h

PageRaised == rendered # <<>> /\ IsRaise(rendered[Len(rendered)])

\* C7: on a record collection missing one of the columns Views, Forwards,
\* Intensity_Score or Categories, the engagement-scatter and views-histogram
\* builders return an empty result instead of raising.
C7_MissingColumnDegrades ==
    /\ (df # None /\ ~HasColumns(df, ExpectedColumns)) =>
          /\ ~RaisedAt("engagement")
          /\ ~RaisedAt("views")
          /\ Len(charts) >= BuilderIndex("engagement") =>
                charts[BuilderIndex("engagement")] = Empty
    /\ (dash.df # None /\ ~HasColumns(dash.df, ExpectedColumns)
          /\ Showing(EngagementHeader)) =>
          /\ ~PageRaised
          /\ Figures(rendered) = {}

TemporalHeader == Md("Temporal Patterns")

NoDateColumn(d) == d = None \/ "Date" \notin d.columns

\* C8: without a Date column (or without a record collection) the
\* time-series builder returns an empty result and does not raise, in the
\* static generator and in the interactive dashboard.
C8_NoDateEmpty ==
    /\ NoDateColumn(df) =>
          /\ ~RaisedAt("timeline")
          /\ Len(charts) >= BuilderIndex("timeline") =>
                charts[BuilderIndex("timeline")] = Empty
    /\ (NoDateColumn(dash.df) /\ Showing(TemporalHeader)) =>
          rendered = <<TemporalHeader>>

\* both time-series builders ran on a frame that has no Date column
C8_Witness ==
    /\ df # None
    /\ "Date" \notin df.columns
    /\ Len(charts) >= BuilderIndex("timeline")
    /\ Showing(TemporalHeader)

\* chart c plots exactly the first min(n, len) entries of ordered dict d, in
\* d's order and with d's counts
PlotsFirst(c, d, n) ==
    /\ c.chart \in {"markers_bar", "subcategory_bar"}
    /\ Len(c.keys) = Min(n, Len(d))
    /\ Len(c.values) = Min(n, Len(d))
    /\ \A i \in 1..Min(n, Len(d)) : c.keys[i] = d[i][1] /\ c.values[i] = d[i][2]

HasKey(sd, k) == Truthy(sd) /\ k \in DOMAIN sd

LinguisticsHeader == Md("Linguistic Markers Analysis")

\* C9: the linguistic-marker builder plots exactly the first min(15, n)
\* entries of top_linguistic_markers, in input order and with their counts.
C9_FirstFifteenMarkers ==
    /\ (HasKey(summary_data, "top_linguistic_markers")
          /\ Len(charts) >= BuilderIndex("linguistic")) =>
          PlotsFirst(charts[BuilderIndex("linguistic")],
                     summary_data.top_linguistic_markers, 15)
    /\ (HasKey(dash.summary_data, "top_linguistic_markers")
          /\ Showing(LinguisticsHeader)) =>
          PlotsFirst(rendered[2], dash.summary_data.top_linguistic_markers, 15)

\* both marker builders ran on a document with more than 15 markers
C9_Witness ==
    /\ HasKey(summary_data, "top_linguistic_markers")
    /\ Len(summary_data.top_linguistic_markers) > 15
    /\ Len(charts) >= BuilderIndex("linguistic")
    /\ Showing(LinguisticsHeader)

SubcategoryHeader == Md("Subcategory Deep Dive")

\* C10: the subcategory builder plots exactly the first min(10, n) entries
\* of subcategory_distribution in the document's key order, never re-sorted
\* by count.
C10_FirstTenSubcategories ==
    /\ (HasKey(summary_data, "subcategory_distribution")
          /\ Len(charts) >= BuilderIndex("subcategory")) =>
          PlotsFirst(charts[BuilderIndex("subcategory")],
                     summary_data.subcategory_distribution, 10)
    /\ (HasKey(dash.summary_data, "subcategory_distribution")
          /\ Showing(SubcategoryHeader)) =>
          PlotsFirst(rendered[2], dash.summary_data.subcategory_distribution, 10)

\* both subcategory builders ran on an unsorted document whose first ten
\* entries are not its ten largest
C10_Witness ==
    /\ HasKey(summary_data, "subcategory_distribution")
    /\ LET subcats == summary_data.subcategory_distribution
       IN /\ Len(subcats) > 10
          /\ \E i \in 11..Len(subcats) : \A j \in 1..10 : subcats[i][2] > subcats[j][2]
    /\ Len(charts) >= BuilderIndex("subcategory")
    /\ Showing(SubcategoryHeader)

\* the number a decimal digit string denotes
RECURSIVE LevelNumber(_)
LevelNumber(s) ==
    IF s = <<>> THEN 0
    ELSE 10 * LevelNumber(SubSeq(s, 1, Len(s) - 1)) + s[Len(s)]

\* the keys of the ordered dict are positive-integer levels
PositiveLevels(d) ==
    \A i \in 1..Len(d) : d[i][1] # <<>> /\ d[i][1][1] # 0

IntensityHeader == Md("Message Intensity Analysis")

\* chart c presents the levels of d in ascending order of level, each with
\* its own count
LevelsAscending(c, d) ==
    /\ c.chart = "intensity_bar"
    /\ Len(c.levels) = Len(d)
    /\ \A i \in 1..Len(c.levels) : c.values[i] = Lookup(d, c.levels[i])
    /\ \A i, j \in 1..Len(c.levels) :
          i < j => LevelNumber(c.levels[i]) < LevelNumber(c.levels[j])

\* C11: for every intensity_distribution whose keys are positive-integer
\* levels, of any number of digits, the intensity builder presents the levels
\* in ascending order of level (2 before 10), each paired with its own count.
C11_IntensityAscending ==
    /\ (HasKey(summary_data, "intensity_distribution")
          /\ PositiveLevels(summary_data.intensity_distribution)
          /\ Len(charts) >= BuilderIndex("intensity")) =>
          LevelsAscending(charts[BuilderIndex("intensity")],
                          summary_data.intensity_distribution)
    /\ (HasKey(dash.summary_data, "intensity_distribution")
          /\ PositiveLevels(dash.summary_data.intensity_distribution)
          /\ Showing(IntensityHeader)) =>
          LevelsAscending(rendered[2], dash.summary_data.intensity_distribution)

RECURSIVE Sum(_)
Sum(s) == IF s = <<>> THEN 0 ELSE Head(s) + Sum(Tail(s))

CategoriesHeader == Md("Content Category Analysis")

\* chart c has one slice or bar per key of ordered dict d, with the key's
\* stored count
PlotsAll(c, d) ==
    /\ c.chart \in {"category_pie", "category_bar"}
    /\ c.keys = Keys(d)
    /\ c.values = Values(d)
    /\ Len(c.keys) = Len(d)
    /\ Sum(c.values) = Sum(Values(d))

\* C12: the category pie and bar builders output exactly the categories of
\* category_distribution, one slice or bar per key with that key's stored
\* count, so the number of categories and the sum of the values are those of
\* the document.
C12_CategoriesExact ==
    /\ (HasKey(summary_data, "category_distribution")
          /\ Len(charts) >= BuilderIndex("category")) =>
          /\ charts[BuilderIndex("category")].chart = "category_pie"
          /\ PlotsAll(charts[BuilderIndex("category")],
                      summary_data.category_distribution)
    /\ (HasKey(dash.summary_data, "category_distribution")
          /\ Showing(CategoriesHeader)) =>
          /\ Len(rendered) = 3
          /\ rendered[2].chart = "category_pie"
          /\ rendered[3].chart = "category_bar"
          /\ PlotsAll(rendered[2], dash.summary_data.category_distribution)
          /\ PlotsAll(rendered[3], dash.summary_data.category_distribution)

\* both category builders ran on {"A": 3, "B": 1}: two categories summing to 4
C12_Witness ==
    /\ HasKey(summary_data, "category_distribution")
    /\ summary_data.category_distribution = << <<1, 3>>, <<2, 1>> >>
    /\ Len(charts) >= BuilderIndex("category")
    /\ Len(charts[BuilderIndex("category")].keys) = 2
    /\ Sum(charts[BuilderIndex("category")].values) = 4
    /\ Showing(CategoriesHeader)
    /\ Len(rendered[3].keys) = 2
    /\ Sum(rendered[3].values) = 4

MediaHeader == Md("Media Content Analysis")

\* chart c is the media pie of document sd: 'With Media' is
\* content_with_media, 'Text Only' is the rest of relevant_messages_found
MediaSlices(c, sd) ==
    /\ c.chart = "media_pie"
    /\ c.labels = <<"With Media", "Text Only">>
    /\ c.values[1] = sd.content_with_media
    /\ c.values[2] = sd.analysis_summary.relevant_messages_found
                       - sd.content_with_media
    /\ c.values[1] + c.values[2] = sd.analysis_summary.relevant_messages_found

\* C13: the media builder's two slices are 'With Media' = content_with_media
\* and 'Text Only' = relevant_messages_found - content_with_media, so the
\* slices sum to relevant_messages_found.
C13_MediaSlices ==
    /\ (HasKey(summary_data, "content_with_media")
          /\ RequiredPresent(summary_data)
          /\ Len(charts) >= BuilderIndex("media")) =>
          MediaSlices(charts[BuilderIndex("media")], summary_data)
    /\ (HasKey(dash.summary_data, "content_with_media")
          /\ RequiredPresent(dash.summary_data)
          /\ Showing(MediaHeader)) =>
          MediaSlices(rendered[2], dash.summary_data)

\* both media builders ran on content_with_media = 700 of 1315 relevant
\* messages: the text-only slice is 615
C13_Witness ==
    /\ HasKey(summary_data, "content_with_media")
    /\ summary_data.content_with_media = 700
    /\ RequiredPresent(summary_data)
    /\ summary_data.analysis_summary.relevant_messages_found = 1315
    /\ Len(charts) >= BuilderIndex("media")
    /\ charts[BuilderIndex("media")].values = <<700, 615>>
    /\ Showing(MediaHeader)
    /\ rendered[2].values = <<700, 615>>

---------------------------------------------------------------------------
(* Properties of the sample data and of the sessions *)

\* the elements show a metric card with this value
ShowsMetric(els, v) ==
    \E i \in 1..Len(els) : els[i].chart = "metric" /\ els[i].value = v

\* the elements show a high-engagement figure: a metric card or an overview
\* bar of that name
ShowsHighEngagement(els) ==
    \E i \in 1..Len(els) :
        \/ els[i].chart = "metric" /\ els[i].label = "High Engagement"
        \/ els[i].chart = "overview"

\* the sections of the static report hold the overview chart of the sample
\* document: 12000, 1315, 1129 and its high-engagement count
StaticSampleOverview(sections) ==
    \E i \in 1..Len(sections) :
        /\ sections[i].chart = "overview"
        /\ sections[i].values =
             <<12000, 1315, 1129,
               SampleSummary.engagement_analysis.high_engagement_messages>>

\* C14: after the fixed sample document is loaded, the report shows the four
\* overview metrics with the document's values: total 12000, relevant 1315,
\* viral 1129 and the high-engagement count, in the static generator's
\* written report and on the page of the cloud dashboard.
C14_SampleMetricsShown ==
    /\ (use_sample /\ out_file.state = "complete") =>
          StaticSampleOverview(out_file.content.sections)
    /\ \A s \in CloudSessions :
          (sessions[s].loaded = "sample" /\ sessions[s].pc = "idle") =>
              /\ ShowsMetric(sessions[s].rendered, ThousandsGroups(12000))
              /\ ShowsMetric(sessions[s].rendered, ThousandsGroups(1315))
              /\ ShowsMetric(sessions[s].rendered, ThousandsGroups(1129))
              /\ ShowsHighEngagement(sessions[s].rendered)

\* C15: the record collection is immutable once loaded: no step of a chart
\* builder or page renderer adds, removes or changes a column or a value of
\* the collection held by the static generator or by the dashboard.
C15_RecordsImmutable ==
    [][df' = df /\ dash'.df = dash.df]_vars

\* C16: the summary document is read-only after load: no chart builder, no
\* page renderer and no step of the report assembly changes a key or a value
\* of the summary document held by the static generator or by the dashboard.
C16_SummaryReadOnly ==
    [][summary_data' = summary_data
         /\ dash'.summary_data = dash.summary_data]_vars

\* all nine builders and the assembly ran on a document that lacks
\* content_with_media, and a page was rendered from it
C16_Witness ==
    /\ Truthy(summary_data)
    /\ "content_with_media" \notin DOMAIN summary_data
    /\ Len(charts) = Len(BuilderOrder)
    /\ pc = "write"
    /\ html_content # NoHtml
    /\ Showing(MediaHeader)
    /\ dash.summary_data = summary_data

\* C17: concurrent sessions share no mutable state: when the script run of
\* a session that uploaded its own CSV/JSON pair has finished, the session
\* has loaded exactly that pair and its page is rendered from it, whatever
\* the other session did meanwhile.
C17_SessionsIsolated ==
    \A s \in Sessions :
        LET ss == sessions[s]
        IN (ss.pc = "idle" /\ ss.csv_file = OwnCsv(s) /\ ss.json_file = OwnJson(s)) =>
              /\ ss.data_loaded
              /\ ss.dashboard = [df |-> ss.csv_file, summary_data |-> ss.json_file]
              /\ ss.rendered = PageElements(ss.selected_page,
                                            [df |-> ss.csv_file,
                                             summary_data |-> ss.json_file])

\* C18: a page selection invokes exactly the builder of the selected page and
\* recomputes from the data already in memory: when the script run that a
\* page selection started finishes, the page shows the elements of the
\* selected page's builder applied to the data the session held before the
\* selection, and the session holds the same summary document as before.
C18_SelectionUsesHeldData ==
    [][\A s \in Sessions :
          (sessions[s].event = "page" /\ sessions[s].pc # "idle"
             /\ sessions'[s].pc = "idle") =>
              /\ sessions'[s].rendered =
                   PageElements(sessions[s].selected_page, sessions[s].held)
              /\ sessions'[s].held.summary_data = sessions[s].held.summary_data]_vars

---------------------------------------------------------------------------
(* Properties of the static generator's control flow (under Spec) *)

\* position of a program point in the run
Rank(p) ==
    CASE p = "main" -> 0
      [] p = "generate" -> 1
      [] p = "charts" -> 2
      [] p = "assemble" -> 3
      [] p = "write" -> 4
      [] p = "opened" -> 5
      [] p = "buffered" -> 6
      [] p \in {"exit", "killed"} -> 7

\* the files at the selected paths exist and parse
RealInputsLoad ==
    /\ read_csv(fs, csv_path, csv_content) # Malformed
    /\ json_load(fs, json_path, json_content) # Malformed

\* one step of the run keeps the order load, builders, assembly, write, and
\* repeats nothing
StepInOrder ==
    \* the run never goes back to an earlier phase
    /\ pc' # pc => Rank(pc') > Rank(pc)
    \* the data is loaded in the load phase only, before any builder, and
    \* the load phase is left by the load
    /\ (summary_data' # summary_data \/ (df' # df /\ pc # "charts")) =>
          /\ pc = "generate"
          /\ charts = <<>>
          /\ pc' # "generate"
    \* the builders start only after a load that succeeded
    /\ (pc = "generate" /\ pc' = "charts") => (use_sample \/ RealInputsLoad)
    \* a builder step runs the one next builder of the call order
    /\ charts' # charts =>
          /\ pc = "charts"
          /\ Len(charts) < Len(BuilderOrder)
          /\ charts' = Append(charts,
                              RunBuilder(BuilderOrder[Len(charts) + 1],
                                         summary_data, df))
    \* the page is assembled after all builders, in the assembly phase only
    /\ html_content' # html_content =>
          /\ pc = "assemble"
          /\ Len(charts) = Len(BuilderOrder)
          /\ pc' = "write"
    \* the output file is touched after the assembly only, and each of
    \* open, write and close belongs to its own phase
    /\ out_file' # out_file =>
          /\ pc \in {"write", "opened", "buffered"}
          /\ html_content # NoHtml
          /\ pc' # pc
    \* a run that returns True went through every phase
    /\ ret' = "True" =>
          /\ Len(charts') = Len(BuilderOrder)
          /\ out_file' = [state |-> "complete", content |-> html_content']

\* C19: a static-generator run is linear and single-pass: the data is loaded
\* once, before any builder; every builder runs once, in call order, and
\* only after a successful load; the assembly happens once, after all
\* builders; the output file is written once, after the assembly.
C19_LinearSinglePass == [][StepInOrder]_vars

\* a run on real input files went through load, nine builders, assembly and
\* write and returned True
C19_Witness ==
    /\ pc = "exit"
    /\ ret = "True"
    /\ ~use_sample
    /\ Len(charts) = Len(BuilderOrder)
    /\ out_file = [state |-> "complete", content |-> html_content]

\* C20: main() selects its inputs by a two-tier fallback: the combined pair
\* when both of its files exist, otherwise the single-dataset pair when both
\* of its files exist, otherwise synthetic data; the CSV and the JSON are
\* always taken from the same directory.
C20_TwoTierFallback ==
    [][pc = "main" =>
          LET combined == Exists(fs, "combined", "csv") /\ Exists(fs, "combined", "json")
              single == Exists(fs, "single", "csv") /\ Exists(fs, "single", "json")
          IN /\ csv_path' = json_path'
             /\ combined => (csv_path' = "combined" /\ ~use_sample')
             /\ (~combined /\ single) => (csv_path' = "single" /\ ~use_sample')
             /\ (~combined /\ ~single) => use_sample']_vars

\* main() has chosen the single-dataset pair although the combined
\* directory holds one of the two files
C20_Witness ==
    /\ pc = "generate"
    /\ csv_path = "single"
    /\ json_path = "single"
    /\ ~use_sample
    /\ Exists(fs, "combined", "csv")
    /\ ~Exists(fs, "combined", "json")

---------------------------------------------------------------------------
(* Properties of the synthetic data *)

\* every row has Views in [100, 89000], Forwards in [0, 20] and a Date
\* within the 365 days that precede the generation time
RowsInRange(d) ==
    \A i \in 1..Len(d.rows) :
        /\ d.rows[i].Views >= 100 /\ d.rows[i].Views <= 89000
        /\ d.rows[i].Forwards >= 0 /\ d.rows[i].Forwards <= 20
        /\ d.rows[i].Date <= Today /\ d.rows[i].Date >= Today - 365

\* C21: every record of the synthetic data has Views within [100, 89000],
\* Forwards within [0, 20] and a Date within the 365 days preceding the
\* generation time, in the static generator and in the cloud dashboard.
C21_SampleRanges ==
    /\ (use_sample /\ df # None) => RowsInRange(df)
    /\ \A s \in CloudSessions :
          (sessions[s].dashboard.summary_data = CloudSampleSummary
             /\ sessions[s].dashboard.df # None) =>
              RowsInRange(sessions[s].dashboard.df)

\* the pair is what one of the two synthetic generators produces
Synthetic(sd, d) ==
    \/ sd = SampleSummary /\ d \in SampleFrames
    \/ sd = CloudSampleSummary /\ d \in CloudSampleFrames

\* the frame the dashboard was given: without the column its Temporal page
\* adds
AsLoaded(d) == IF d = None THEN d ELSE WithoutColumns(d, {"Date_Only"})

\* C22: the synthetic data is well-formed: the frame carries every required
\* column and the summary every key a builder reads, so that on it every
\* static builder returns a non-empty result without raising, the assembly
\* succeeds, and every page renders content without raising.
C22_SampleWellFormed ==
    /\ Synthetic(summary_data, df) =>
          /\ CsvColumns \subseteq df.columns
          /\ RequiredPresent(summary_data)
          /\ OptionalKeys \subseteq DOMAIN summary_data
          /\ \A i \in 1..Len(charts) :
                charts[i] # Empty /\ ~IsRaise(charts[i])
          /\ pc # "exit"
          /\ pc = "write" =>
                \A i \in 1..Len(html_content.sections) :
                    html_content.sections[i] # Empty
    /\ (Synthetic(dash.summary_data, AsLoaded(dash.df)) /\ rendered # <<>>) =>
          /\ ~PageRaised
          /\ Len(rendered) > 1

\* on the cloud generator's data all nine static builders and the assembly
\* ran and the Engagement page was rendered
C22_Witness ==
    /\ summary_data = CloudSampleSummary
    /\ df \in CloudSampleFrames
    /\ Len(charts) = Len(BuilderOrder)
    /\ pc = "write"
    /\ Showing(EngagementHeader)
    /\ Figures(rendered) # {}

---------------------------------------------------------------------------
(* Properties of the static generator's error handling (under Spec) *)

\* the load from the files succeeded and gave a document without the
\* required analysis_summary key or without one of its required fields
LoadedWithoutRequired ==
    /\ Loaded
    /\ RealInputsLoad
    /\ summary_data # None
    /\ ~RequiredPresent(summary_data)

\* C23: exceptions other than a load failure are not caught: when the
\* loaded summary document lacks analysis_summary or one of its required
\* fields, generate_html_dashboard neither returns False nor substitutes
\* synthetic data; the run ends with the exception (the KeyError, unless a
\* builder raised on the record collection before), and the output file is
\* neither created nor modified.
C23_MissingSummaryPropagates ==
    LoadedWithoutRequired =>
        /\ summary_data = json_content
        /\ ret \notin {"False", "True"}
        /\ pc \in {"charts", "assemble", "exit"}
        /\ pc = "exit" => ret \in {"KeyError", "ValueError"}
        /\ (pc = "exit" /\ df = CsvFrame) => ret = "KeyError"
        /\ out_file.state \in {"absent", "old"}
        /\ out_file.state = "old" => out_file.content = OldReport

\* the run on a document without analysis_summary ended in the overview
\* builder's KeyError and left the earlier report in place
C23_Witness ==
    /\ LoadedWithoutRequired
    /\ Truthy(summary_data)
    /\ "analysis_summary" \notin DOMAIN summary_data
    /\ pc = "exit"
    /\ ret = "KeyError"
    /\ charts = <<>>
    /\ out_file = [state |-> "old", content |-> OldReport]

---------------------------------------------------------------------------
(* Independence of the builders (under SpecBuilders) *)

\* C24: the builders are independent: no builder or page step changes what
\* any builder or page returns on the data the objects hold, so each
\* builder's output is the same in any order and after any number of
\* invocations; in particular the time-series builders are idempotent and
\* leave the output of every other builder as it was.
C24_BuildersIndependent ==
    [][/\ <<summary_data, df>>' # <<summary_data, df>> =>
             \A i \in 1..Len(BuilderOrder) :
                 RunBuilder(BuilderOrder[i], summary_data', df')
                   = RunBuilder(BuilderOrder[i], summary_data, df)
       /\ dash' # dash =>
             \A p \in Pages : PageElements(p, dash') = PageElements(p, dash)]_vars

\* the timeline builder has converted the Date column of a frame read from
\* a CSV file, the views builder ran after it, and the Temporal page was
\* rendered and added its column
C24_Witness ==
    /\ df # None
    /\ df.rows = CsvFrame.rows
    /\ df.date_dtype = "datetime64"
    /\ Len(charts) = Len(BuilderOrder)
    /\ dash.df # None
    /\ "Date_Only" \in dash.df.columns
    /\ Showing(EngagementHeader)

---------------------------------------------------------------------------
(* Loaded data across the rerun of the cloud dashboard (under SpecCloud) *)

\* C25: in the cloud dashboard loaded data survives the rerun it triggers:
\* every script run of a session whose last load succeeded (demo data or an
\* uploaded pair) and was not reset renders the navigation and the selected
\* page, with the 'Upload New Data' button, instead of the upload interface.
C25_LoadedDataSurvivesRerun ==
    [][\A s \in CloudSessions :
          (/\ sessions[s].pc = "run"
           /\ sessions[s].loaded # "none"
           /\ sessions'[s].pc # "run")
          => /\ Shows(sessions'[s], "Upload New Data")
             /\ ~Shows(sessions'[s], "Load Demo Data")]_vars

---------------------------------------------------------------------------
(* The result of generate_html_dashboard and the output file (under Spec) *)

\* C26: generate_html_dashboard has returned True only when the complete
\* report, built from all charts, is in the file at output_path; when it
\* has returned False (the load failed) no builder was invoked, no report
\* text was assembled, and the file at output_path is as it was before the
\* run: absent, or the earlier report.
C26_ReturnReflectsOutput ==
    /\ ret = "True" =>
          /\ pc = "exit"
          /\ Len(charts) = Len(BuilderOrder)
          /\ html_content = HtmlTemplate(summary_data, charts)
          /\ out_file = [state |-> "complete", content |-> html_content]
    /\ ret = "False" =>
          /\ pc = "exit"
          /\ ~use_sample
          /\ charts = <<>>
          /\ html_content = NoHtml
          /\ out_file.state \in {"absent", "old"}
          /\ out_file.state = "old" => out_file.content = OldReport

\* the load failed on the JSON file after the CSV file was read, with an
\* earlier report at output_path
C26_Witness ==
    /\ ret = "False"
    /\ df # None
    /\ summary_data = None
    /\ out_file = [state |-> "old", content |-> OldReport]

---------------------------------------------------------------------------
(* The page dispatch and loaded data (under SpecDash) *)

\* C27: no page builder is invoked in a render in which the record
\* collection or the summary document is not loaded: whenever the last
\* script run of a session went through the page dispatch, the dashboard
\* object of that run holds a frame and a summary document.
C27_NoDispatchWithoutData ==
    \A s \in Sessions :
        (sessions[s].pc = "idle" /\ sessions[s].held # NoDash) =>
            /\ sessions[s].held.df # None
            /\ sessions[s].held.summary_data # None

---------------------------------------------------------------------------
(* launch_dashboard.py: the launcher of the local dashboard *)

\* no browser is connected to the session: the server is not running
NoSession == [NewSession EXCEPT !.pc = "closed"]

\* variant of launcher_finds that looks for each file on its own
launcher_finds_per_file(f) ==
    /\ Exists(f, "combined", "csv") \/ Exists(f, "single", "csv")
    /\ Exists(f, "combined", "json") \/ Exists(f, "single", "json")

\* the launcher's check: the combined pair, else the single-dataset pair
launcher_finds(f) ==
    \/ Exists(f, "combined", "csv") /\ Exists(f, "combined", "json")
    \/ Exists(f, "single", "csv") /\ Exists(f, "single", "json")

\* launch_dashboard.main(): sys.exit(1) when no pair is found, else
\* subprocess.run of the streamlit server, which opens the page in the
\* browser
LaunchMain ==
    /\ pc = "launch"
    /\ IF launcher_finds(fs)
       THEN /\ pc' = "serving"
            /\ ret' = ret
            /\ sessions' = [s \in Sessions |->
                              IF s \in Browsing THEN NewSession ELSE sessions[s]]
       ELSE /\ pc' = "exit"
            /\ ret' = "1"
            /\ UNCHANGED sessions
    /\ UNCHANGED <<fs, csv_content, json_content, csv_path, json_path,
                   use_sample, df, summary_data, charts, html_content,
                   out_file, dash, rendered, temp_files>>

\* the launcher is started in any state of the two results directories; the
\* summary file parses or not
InitLaunch ==
    /\ fs \in [Dirs \X Kinds -> BOOLEAN]
    /\ csv_content = CsvFrame
    /\ json_content \in {SampleSummary, Malformed}
    /\ csv_path = "unset"
    /\ json_path = "unset"
    /\ use_sample = FALSE
    /\ df = None
    /\ summary_data = None
    /\ charts = <<>>
    /\ html_content = NoHtml
    /\ out_file = [state |-> "absent", content |-> NoHtml]
    /\ pc = "launch"
    /\ ret = "none"
    /\ dash = NoDash
    /\ rendered = <<>>
    /\ sessions = [s \in Sessions |-> NoSession]
    /\ temp_files = NoTemp

NextLaunch ==
    \/ LaunchMain
    \/ \E s \in Browsing :
          \/ DashUpload(s)
          \/ DashSaveCsv(s)
          \/ DashSaveJson(s)
          \/ DashReadCsv(s)
          \/ DashReadJson(s)
          \/ DashRender(s)

SpecLaunch == InitLaunch /\ [][NextLaunch]_vars

\* both files of the results directory d exist
PairExists(d) == Exists(fs, d, "csv") /\ Exists(fs, d, "json")

\* the launcher has started the server
Serving == pc = "serving"

\* a script run of the session has ended without an uploaded pair
RanOnDefaults(ss) == ss.pc = "idle" /\ ~BothUploaded(ss)

---------------------------------------------------------------------------
(* Uploads and default files in the local dashboard (under SpecSessions) *)

\* the session's uploaded pair parses
UploadsParse(ss) == ss.csv_file # Malformed /\ ss.json_file # Malformed

\* C29: uploads take precedence over the default files: when a script run
\* has ended with both uploaders holding a file, the data was loaded from
\* the uploaded pair and from nowhere else, and when that pair does not
\* parse no data is loaded and no page is rendered; when it has ended with
\* fewer than two uploads and the default pair complete, the default pair
\* was loaded.
C29_UploadsTakePrecedence ==
    \A s \in Sessions :
        LET ss == sessions[s]
        IN (ss.pc = "idle" /\ ss.rendered # <<>>) =>
              IF BothUploaded(ss)
              THEN /\ ss.paths = "temp"
                   /\ IF UploadsParse(ss)
                      THEN /\ ss.data_loaded
                           /\ ss.loaded = "files"
                           /\ ss.dashboard.summary_data = json_value(ss.json_file)
                           /\ ss.rendered
                                = PageElements(ss.selected_page,
                                               [df |-> ss.csv_file,
                                                summary_data |-> json_value(ss.json_file)])
                      ELSE /\ ~ss.data_loaded
                           /\ ss.rendered = <<Md("Please upload analysis results")>>
              ELSE DefaultsExist(fs) =>
                      /\ ss.paths = DefaultTier(fs)
                      /\ ss.data_loaded => ss.loaded = "default"
                      /\ ~ss.data_loaded =>
                            ss.rendered = <<Md("Please upload analysis results")>>

---------------------------------------------------------------------------
(* telegram_analysis_dashboard.py: the message explorer.  A text is the     *)
(* sequence of its characters; the Categories cell of a row is the text of  *)
(* its category names joined with "; ".                                     *)

\* the option 'All' of both select boxes
All == <<"A", "l", "l">>

\* category names, abbreviated: LgbtqPlusHate stands for the sample data's
\* 'LGBTQ+ Hate Speech & Anti-Rights Rhetoric'; Gender is a part of
\* AntiGender
AntiGender == <<"A", "-", "G">>

Gender == <<"G">>

LgbtqPlusHate == <<"Q", "+", " ", "H">>

Disinformation == <<"D">>

\* '; '.join(names): the text of a Categories cell
RECURSIVE Join(_)
Join(names) ==
    IF names = <<>> THEN <<>>
    ELSE IF Len(names) = 1 THEN names[1]
    ELSE names[1] \o <<";", " ">> \o Join(Tail(names))

\* text.split('; ')
RECURSIVE Split(_, _)
Split(text, word) ==
    IF text = <<>> THEN <<word>>
    ELSE IF Len(text) >= 2 /\ text[1] = ";" /\ text[2] = " "
         THEN <<word>> \o Split(SubSeq(text, 3, Len(text)), <<>>)
         ELSE Split(Tail(text), Append(word, text[1]))

\* text.strip()
RECURSIVE Strip(_)
Strip(text) ==
    IF text = <<>> THEN text
    ELSE IF text[1] = " " THEN Strip(Tail(text))
    ELSE IF text[Len(text)] = " " THEN Strip(SubSeq(text, 1, Len(text) - 1))
    ELSE text

\* the pattern as the regular-expression compiler reads it: a character
\* followed by + is that character one or more times
RECURSIVE Atoms(_)
Atoms(p) ==
    IF p = <<>> THEN <<>>
    ELSE IF Len(p) >= 2 /\ p[2] = "+"
         THEN <<[ch |-> p[1], plus |-> TRUE]>> \o Atoms(SubSeq(p, 3, Len(p)))
         ELSE <<[ch |-> p[1], plus |-> FALSE]>> \o Atoms(Tail(p))

\* the atoms from the k-th on match the text at position pos
RECURSIVE MatchAt(_, _, _, _)
MatchAt(as, k, t, pos) ==
    IF k > Len(as) THEN TRUE
    ELSE IF ~as[k].plus
         THEN /\ pos <= Len(t)
              /\ t[pos] = as[k].ch
              /\ MatchAt(as, k + 1, t, pos + 1)
         ELSE \E n \in 1..(Len(t) - pos + 1) :
                 /\ \A m \in 0..(n - 1) : t[pos + m] = as[k].ch
                 /\ MatchAt(as, k + 1, t, pos + n)

\* re.search(p, t) finds a match
re_search(p, t) == \E pos \in 1..(Len(t) + 1) : MatchAt(Atoms(p), 1, t, pos)

\* Series.str.contains(pat, na=False) on one Categories cell: a
\* regular-expression search; an empty cell is NaN
str_contains(cats, pat) == cats # <<>> /\ re_search(pat, Join(cats))

\* the sorted list of a set of numbers
RECURSIVE Ascending(_)
Ascending(S) ==
    IF S = {} THEN <<>>
    ELSE LET m == CHOOSE x \in S : \A y \in S : x <= y
         IN <<m>> \o Ascending(S \ {m})

\* the category options besides 'All': the stripped names of all cells
CategoryOptions(d) ==
    UNION {{Strip(Split(Join(d.rows[i].Categories), <<>>)[j]) :
               j \in 1..Len(Split(Join(d.rows[i].Categories), <<>>))} :
             i \in {k \in 1..Len(d.rows) : d.rows[k].Categories # <<>>}}

\* sorted(self.df['Intensity_Score'].unique())
IntensityLevels(d) == Ascending({d.rows[i].Intensity_Score : i \in 1..Len(d.rows)})

ExplorerSample == 10

\* rows.nlargest(n, 'Views'): descending Views, earlier rows first among ties
RECURSIVE nlargest(_, _)
nlargest(rows, n) ==
    IF n = 0 \/ rows = <<>> THEN <<>>
    ELSE LET i == CHOOSE k \in 1..Len(rows) :
                     /\ \A l \in 1..Len(rows) : rows[l].Views <= rows[k].Views
                     /\ \A l \in 1..(k - 1) : rows[l].Views < rows[k].Views
         IN <<rows[i]>> \o nlargest(SubSeq(rows, 1, i - 1)
                                      \o SubSeq(rows, i + 1, Len(rows)), n - 1)

\* st.expander of one sampled row
Expander(row) ==
    [chart |-> "expander",
     Message_ID |-> row.Message_ID,
     Views |-> row.Views,
     Categories |-> Join(row.Categories),
     Intensity_Score |-> row.Intensity_Score,
     Forwards |-> row.Forwards]

\* filtered_df after the three filters
filtered_rows(d, selected_category, selected_intensity, min_views) ==
    LET by_category == IF selected_category # All
                       THEN SelectSeq(d.rows, LAMBDA r :
                                str_contains(r.Categories, selected_category))
                       ELSE d.rows
        by_intensity == IF selected_intensity # 0
                        THEN SelectSeq(by_category, LAMBDA r :
                                 r.Intensity_Score
                                   = IntensityLevels(d)[selected_intensity])
                        ELSE by_category
    IN IF min_views > 0
       THEN SelectSeq(by_intensity, LAMBDA r : r.Views >= min_views)
       ELSE by_intensity

\* create_message_explorer with the values of its three widgets; the
\* intensity select box gives the index of the selected option, 0 for 'All'
create_message_explorer(o, selected_category, selected_intensity, min_views) ==
    LET d == o.df
    IN <<Md("Message Content Explorer")>> \o
       (IF d = None THEN <<>>
        ELSE IF "Categories" \notin d.columns THEN <<Raise("KeyError")>>
        ELSE <<[chart |-> "selectbox",
                label |-> "Filter by Category",
                options |-> {All} \cup CategoryOptions(d),
                value |-> selected_category]>> \o
        (IF "Intensity_Score" \notin d.columns THEN <<Raise("KeyError")>>
         ELSE <<[chart |-> "selectbox",
                 label |-> "Filter by Intensity",
                 levels |-> IntensityLevels(d),
                 index |-> selected_intensity],
                [chart |-> "number_input",
                 label |-> "Minimum Views",
                 value |-> min_views]>> \o
         (IF min_views > 0 /\ "Views" \notin d.columns THEN <<Raise("KeyError")>>
          ELSE LET filtered == filtered_rows(d, selected_category,
                                             selected_intensity, min_views)
               IN <<Insight("Showing", Len(filtered))>> \o
                  (IF filtered = <<>> THEN <<>>
                   ELSE IF ~({"Message_ID", "Text_Preview", "Categories",
                              "Intensity_Score", "Views", "Forwards"}
                               \subseteq d.columns)
                        THEN <<Raise("KeyError")>>
                   ELSE LET sample == nlargest(filtered,
                                               Min(ExplorerSample, Len(filtered)))
                        IN [i \in 1..Len(sample) |-> Expander(sample[i])]))))

\* frames for the explorer: one whose names overlap, one whose names do
\* not, one without the Views column
OverlappingFrame ==
    [columns |-> CsvColumns,
     date_dtype |-> "object",
     rows |-> <<CsvRow(1, 1200, 3, 10, <<AntiGender>>, 1),
                CsvRow(2, 150, 0, 10, <<Gender, Disinformation>>, 2),
                CsvRow(3, 40000, 7, 12, <<LgbtqPlusHate>>, 1),
                CsvRow(4, 90, 0, 12, <<>>, 3),
                CsvRow(5, 700, 1, 13, <<LgbtqPlusHate, AntiGender>>, 2)>>]

DisjointFrame ==
    [columns |-> CsvColumns,
     date_dtype |-> "object",
     rows |-> <<CsvRow(1, 1200, 3, 10, <<Gender>>, 1),
                CsvRow(2, 150, 0, 10, <<Gender, Disinformation>>, 2),
                CsvRow(3, 40000, 7, 12, <<Disinformation>>, 1),
                CsvRow(4, 150, 2, 12, <<>>, 3)>>]

ExplorerFrames ==
    {OverlappingFrame, DisjointFrame, WithoutColumns(DisjointFrame, {"Views"})}

\* values the user types into the number input
MinViewsInputs == {0, 150, 1000}

\* the options the select boxes of the page offer
SelectableCategories(d) ==
    IF d = None \/ "Categories" \notin d.columns THEN {All}
    ELSE {All} \cup CategoryOptions(d)

SelectableIntensities(d) ==
    IF d = None \/ "Intensity_Score" \notin d.columns THEN {0}
    ELSE 0..Len(IntensityLevels(d))

\* a script run with the Explorer view selected and the widgets at the
\* values the user gave them; the filters work on a copy of self.df
RenderExplorer ==
    /\ \E c \in SelectableCategories(dash.df) :
       \E i \in SelectableIntensities(dash.df) :
       \E v \in MinViewsInputs :
          rendered' = create_message_explorer(dash, c, i, v)
    /\ UNCHANGED <<fs, csv_content, json_content, csv_path, json_path,
                   use_sample, df, summary_data, charts, html_content,
                   out_file, pc, ret, dash>>
    /\ UNCHANGED webVars

InitExplorer ==
    /\ fs = [f \in Dirs \X Kinds |-> FALSE]
    /\ csv_content = Malformed
    /\ json_content = Malformed
    /\ csv_path = "unset"
    /\ json_path = "unset"
    /\ use_sample = FALSE
    /\ df = None
    /\ summary_data = None
    /\ charts = <<>>
    /\ html_content = NoHtml
    /\ out_file = [state |-> "absent", content |-> NoHtml]
    /\ pc = "exit"
    /\ ret = "none"
    /\ dash \in {[df |-> d, summary_data |-> SampleSummary] : d \in ExplorerFrames}
    /\ rendered = <<>>
    /\ sessions = [s \in Sessions |-> IdleSession]
    /\ temp_files = NoTemp

NextExplorer == RenderExplorer

SpecExplorer == InitExplorer /\ [][NextExplorer]_vars

\* the page is a whole explorer page: widgets and the number of messages
ExplorerShown ==
    /\ Len(rendered) >= 5
    /\ rendered[5].chart = "insight"

\* the row has c among the '; '-separated names of its Categories cell
HasCategory(r, c) == \E j \in 1..Len(r.Categories) : r.Categories[j] = c

\* the rows the filters are to keep for the widget values on the page
Matching ==
    LET d == dash.df
        c == rendered[2].value
        i == rendered[3].index
        v == rendered[4].value
    IN SelectSeq(d.rows, LAMBDA r :
           /\ c = All \/ HasCategory(r, c)
           /\ i = 0 \/ r.Intensity_Score = rendered[3].levels[i]
           /\ r.Views >= v)

\* C30: in the message explorer a category c other than 'All' keeps exactly
\* the records whose '; '-separated Categories list has c as an element, and
\* the category, intensity and minimum-views filters combine conjunctively:
\* the page reports the number of records that satisfy all three and shows
\* only such records.
C30_ExplorerFilters ==
    ExplorerShown =>
        /\ rendered[5] = Insight("Showing", Len(Matching))
        /\ \A k \in 6..Len(rendered) :
              rendered[k].chart = "expander" =>
                 \E m \in 1..Len(Matching) :
                     Matching[m].Message_ID = rendered[k].Message_ID

====
